---- MODULE Spec2Model ----
(***************************************************************************)
(* UTFR dashboard: the local folder scan / import pipeline                 *)
(* (LocalGoogleDriveSync) and the dashboard's merge of imported data       *)
(* (UTFRDataDashboard.handleDataImported).                                 *)
(*                                                                         *)
(* Strings are sequences of one-character strings, so that the regular     *)
(* expression, split, endsWith, toLowerCase and the template strings of    *)
(* the source are computed character by character.  `None` stands for      *)
(* JavaScript's undefined.                                                 *)
(***************************************************************************)
EXTENDS Integers, Sequences, FiniteSets, TLC

\* a value no string equals (strings hold one-character elements only)
None == <<"undefined">>

(* ------------------------------ bounds -------------------------------- *)
\* the day of the wall clock during a behaviour (0 is 2026-01-01)
Today == 0
\* at most this many importGlobalSetups calls are suspended at an await at once
MaxSetupTasks == 1
\* the dashboard forms add at most this many records to a collection beyond
\* the built-in ones
MaxCreated == 1

(* --------------------------- string helpers --------------------------- *)
Digits == <<"0", "1", "2", "3", "4", "5", "6", "7", "8", "9">>

IsDigit(c) == \E i \in 1..10 : Digits[i] = c

IsSpace(c) == c = " "

\* String.prototype.toLowerCase, on one character
LowerChar(c) ==
    CASE c = "A" -> "a" [] c = "B" -> "b" [] c = "C" -> "c" [] c = "D" -> "d"
      [] c = "E" -> "e" [] c = "F" -> "f" [] c = "G" -> "g" [] c = "H" -> "h"
      [] c = "I" -> "i" [] c = "J" -> "j" [] c = "K" -> "k" [] c = "L" -> "l"
      [] c = "M" -> "m" [] c = "N" -> "n" [] c = "O" -> "o" [] c = "P" -> "p"
      [] c = "Q" -> "q" [] c = "R" -> "r" [] c = "S" -> "s" [] c = "T" -> "t"
      [] c = "U" -> "u" [] c = "V" -> "v" [] c = "W" -> "w" [] c = "X" -> "x"
      [] c = "Y" -> "y" [] c = "Z" -> "z" [] OTHER -> c

ToLower(s) == [i \in 1..Len(s) |-> LowerChar(s[i])]

UpperCaseLetters == {"A", "B", "C", "D", "E", "F", "G", "H", "I", "J", "K", "L", "M",
                     "N", "O", "P", "Q", "R", "S", "T", "U", "V", "W", "X", "Y", "Z"}

\* String.prototype.toUpperCase, on one character
UpperChar(c) ==
    IF \E C \in UpperCaseLetters : LowerChar(C) = c
    THEN CHOOSE C \in UpperCaseLetters : LowerChar(C) = c
    ELSE c

ToUpper(s) == [i \in 1..Len(s) |-> UpperChar(s[i])]

\* s.substring(0, n)
Substring0(s, n) == SubSeq(s, 1, IF n < Len(s) THEN n ELSE Len(s))

\* String(n).padStart(2, "0")
RECURSIVE NumStr(_)
PadStart2(n) == IF n < 10 THEN <<"0">> \o NumStr(n) ELSE NumStr(n)

\* the value of the leading decimal digits of s
RECURSIVE DigitsValue(_, _)
DigitsValue(s, acc) ==
    IF s = <<>> \/ ~IsDigit(Head(s)) THEN acc
    ELSE DigitsValue(Tail(s),
                     10 * acc + (CHOOSE d \in 0..9 : Digits[d + 1] = Head(s)))

\* String.prototype.endsWith
EndsWith(s, suf) ==
    /\ Len(s) >= Len(suf)
    /\ SubSeq(s, Len(s) - Len(suf) + 1, Len(s)) = suf

\* s has sep at position i
OccursAt(s, sep, i) ==
    /\ i >= 1
    /\ i + Len(sep) - 1 <= Len(s)
    /\ SubSeq(s, i, i + Len(sep) - 1) = sep

\* String.prototype.split with a non-empty string separator
RECURSIVE Split(_, _)
Split(s, sep) ==
    LET hits == {i \in 1..Len(s) : OccursAt(s, sep, i)}
    IN  IF hits = {}
        THEN <<s>>
        ELSE LET i == CHOOSE h \in hits : \A g \in hits : h <= g
             IN  <<SubSeq(s, 1, i - 1)>> \o Split(SubSeq(s, i + Len(sep), Len(s)), sep)

\* the decimal digits of a natural number, as template strings print it
NumStr(n) == IF n < 10 THEN <<Digits[n + 1]>>
             ELSE NumStr(n \div 10) \o <<Digits[(n % 10) + 1]>>

\* s.replace(/\s+/g, '')
RECURSIVE StripSpaces(_)
StripSpaces(s) ==
    IF s = <<>> THEN <<>>
    ELSE IF IsSpace(Head(s)) THEN StripSpaces(Tail(s))
         ELSE <<Head(s)>> \o StripSpaces(Tail(s))

\* JavaScript truthiness of a string-or-undefined value
Truthy(v) == v # None /\ v # <<>>

\* a || b
OrElse(a, b) == IF Truthy(a) THEN a ELSE b

\* string literals of the source
DotXrk == <<".", "x", "r", "k">>
DotJson == <<".", "j", "s", "o", "n">>
SetupsLower == <<"s", "e", "t", "u", "p", "s">>
TestDayJson == <<"t", "e", "s", "t", "d", "a", "y", ".", "j", "s", "o", "n">>
SpaceDashSpace == <<" ", "-", " ">>
Unknown == <<"U", "n", "k", "n", "o", "w", "n">>
LocalDash == <<"l", "o", "c", "a", "l", "-">>
SetupDash == <<"s", "e", "t", "u", "p", "-">>
SetDash == <<"S", "E", "T", "-">>
ImportedFrom == <<"I", "m", "p", "o", "r", "t", "e", "d", " ", "f", "r", "o", "m", " ">>

(* ------------------- the test-day folder name pattern ----------------- *)
\* the number of leading whitespace characters of s from position p on
RECURSIVE SpaceRun(_, _)
SpaceRun(s, p) ==
    IF p <= Len(s) /\ IsSpace(s[p]) THEN 1 + SpaceRun(s, p + 1) ELSE 0

\* the number of leading digits (at most 2) of s from position p on
DigitRun2(s, p) ==
    IF p <= Len(s) /\ IsDigit(s[p])
    THEN IF p + 1 <= Len(s) /\ IsDigit(s[p + 1]) THEN 2 ELSE 1
    ELSE 0

\* segment.match(/^(\d{4}-\d{1,2}-\d{1,2})\s*[-_]\s*(.+)$/):
\* [ok, date, venue], the two capture groups as the greedy match gives them
MatchTestDay(s) ==
    LET no == [ok |-> FALSE, date |-> <<>>, venue |-> <<>>]
        yearOk == /\ Len(s) >= 5
                  /\ \A i \in 1..4 : IsDigit(s[i])
                  /\ s[5] = "-"
        m == DigitRun2(s, 6)
        pm == 6 + m                       \* the '-' after the month
        d == DigitRun2(s, pm + 1)
        pd == pm + 1 + d                  \* first position after the date
        w1 == SpaceRun(s, pd)
        psep == pd + w1                   \* the separator character
        rest == Len(s) - psep             \* characters after the separator
        w2run == SpaceRun(s, psep + 1)
        \* \s* is greedy but gives back so that (.+) keeps one character
        w2 == IF w2run >= rest THEN rest - 1 ELSE w2run
    IN  IF ~yearOk THEN no
        ELSE IF m = 0 \/ pm > Len(s) \/ s[pm] # "-" THEN no
        ELSE IF d = 0 THEN no
        ELSE IF psep > Len(s) \/ ~(s[psep] \in {"-", "_"}) THEN no
        ELSE IF rest < 1 THEN no
        ELSE [ok |-> TRUE,
              date |-> SubSeq(s, 1, pd - 1),
              venue |-> SubSeq(s, psep + 1 + w2, Len(s))]

(* ------------------------------ the disk ------------------------------ *)
\* path segments used by the files of the model
RootDir == <<"T">>
Day1 == <<"2", "0", "2", "5", "-", "4", "-", "1", " ", "-", " ", "A">>
Day2 == <<"2", "0", "2", "5", "-", "4", "-", "2", "_", "B">>
DataDump == <<"d", "a", "t", "a", "d", "u", "m", "p">>
SetupsDir == <<"S", "e", "t", "u", "p", "s">>

\* file contents: a text that JSON.parse accepts (with the object it yields,
\* a function from its keys to their string values) or rejects
JsonText(v) == [valid |-> TRUE, value |-> v]
BadText == [valid |-> FALSE, value |-> <<>>]

\* a File object: webkitRelativePath (its segments), size, lastModified, text
MkFile(path, size, text) ==
    [path |-> path, size |-> size, lastModified |-> 0, text |-> text]

\* file.name
FileName(f) == f.path[Len(f.path)]

\* the files that may appear under the selected folder, in the host's
\* canonical enumeration order
Universe == <<
    MkFile(<<RootDir, Day1, DataDump, <<"r", "1", ".", "x", "r", "k">> >>, 10, BadText),
    MkFile(<<RootDir, Day1, DataDump, <<"r", "2", ".", "X", "R", "K">> >>, 20, BadText),
    MkFile(<<RootDir, Day1, <<"r", "3", ".", "x", "r", "k">> >>, 30, BadText),
    MkFile(<<RootDir, SetupsDir, <<"s", "1", ".", "j", "s", "o", "n">> >>, 1,
           JsonText([id |-> <<"S", "1">>, name |-> <<"B", "a", "s", "e">>])),
    MkFile(<<RootDir, SetupsDir, <<"s", "2", ".", "j", "s", "o", "n">> >>, 1,
           JsonText([id |-> <<"S", "1">>, name |-> <<"C", "o", "p", "y">>])),
    MkFile(<<RootDir, SetupsDir, <<"s", "3", ".", "j", "s", "o", "n">> >>, 1, BadText),
    MkFile(<<RootDir, Day1, <<"s", "e", "t", "u", "p", "-", "q", ".", "j", "s", "o", "n">> >>, 1,
           JsonText([id |-> <<"Q", "1">>, name |-> <<"Q", "u", "a", "l", "i">>])),
    MkFile(<<RootDir, Day2, <<"r", "4", ".", "x", "r", "k">> >>, 40, BadText)
>>

UniverseSet == {Universe[i] : i \in 1..Len(Universe)}

\* what the user types into the "YYYY-M-D" and "Venue" fields
NewDayDates == {<<>>, <<"2", "0", "2", "5", "-", "4", "-", "2">>}
NewDayVenues == {<<>>, <<"B">>}

\* const folderName = `${newDayDate} - ${newDayVenue}`
FolderNameOf(date, venue) == date \o SpaceDashSpace \o venue

\* the path of the testday.json createTestDayOnDisk writes under the base folder
TestDayJsonPath(date, venue) == <<RootDir, FolderNameOf(date, venue), TestDayJson>>

\* setup.name.replace(/[^a-zA-Z0-9]/g, '-')
IsAlnum(c) == IsDigit(c) \/ c \in UpperCaseLetters \/ UpperChar(c) # c
Sanitize(name) == [i \in 1..Len(name) |-> IF IsAlnum(name[i]) THEN name[i] ELSE "-"]

\* the path of the file tryAutoWriteSetup writes: Setups/setup-<name>.json
SetupFilePath(name) == <<RootDir, SetupsDir, SetupDash \o Sanitize(name) \o DotJson>>

\* the names the user types into the setup form
EditedNames == {<<"W", "e", "t">>}

\* the paths of the files the program itself can write
RECURSIVE SetToSeq(_)
SetToSeq(S) == IF S = {} THEN <<>>
               ELSE LET x == CHOOSE y \in S : TRUE IN <<x>> \o SetToSeq(S \ {x})

WrittenPaths ==
    SetToSeq({TestDayJsonPath(d, v) : d \in NewDayDates \ {<<>>}, v \in NewDayVenues \ {<<>>}})
        \o SetToSeq({SetupFilePath(n) : n \in EditedNames})

\* the host's canonical enumeration order of the paths
PathOrder == [i \in 1..Len(Universe) |-> Universe[i].path] \o WrittenPaths

\* the files on disk after a file with the given path and text is written
WriteFile(onDisk, path, text) ==
    {f \in onDisk : f.path # path} \cup {MkFile(path, 1, text)}

\* the host enumerates the selected folder in canonical order or in reverse
EnumOrders == {"forward", "reverse"}

Reverse(s) == [i \in 1..Len(s) |-> s[Len(s) + 1 - i]]

\* the FileList the folder picker hands over for the files on disk
RECURSIVE FilesInOrder(_, _)
FilesInOrder(onDisk, paths) ==
    IF paths = <<>> THEN <<>>
    ELSE LET here == {f \in onDisk : f.path = Head(paths)}
         IN  (IF here = {} THEN <<>> ELSE <<CHOOSE f \in here : TRUE>>)
                 \o FilesInOrder(onDisk, Tail(paths))

Enumerate(onDisk, order) ==
    LET known == {PathOrder[i] : i \in 1..Len(PathOrder)}
        fwd == FilesInOrder(onDisk, PathOrder)
                 \o SetToSeq({f \in onDisk : f.path \notin known})
    IN  IF order = "forward" THEN fwd ELSE Reverse(fwd)

(* ------------------------ scanForTestDayFolders ----------------------- *)
\* the first directory segment of the path that matches the test-day
\* pattern, '' when there is none
RECURSIVE FirstMatch(_, _)
FirstMatch(parts, i) ==
    IF i > Len(parts) - 1 THEN <<>>
    ELSE IF MatchTestDay(parts[i]).ok THEN parts[i]
         ELSE FirstMatch(parts, i + 1)

\* an attribution to the innermost matching directory segment
TestDayFolderOf_Innermost(f) ==
    LET hits == {i \in 1..(Len(f.path) - 1) : MatchTestDay(f.path[i]).ok}
    IN  IF hits = {} THEN <<>>
        ELSE f.path[CHOOSE i \in hits : \A j \in hits : j <= i]

TestDayFolderOf(f) == IF Len(f.path) >= 2 THEN FirstMatch(f.path, 1) ELSE <<>>

\* relPath.toLowerCase().includes('/setups/') || pathParts[0].toLowerCase() === 'setups',
\* and the file name ends in .json
\* file.webkitRelativePath: the segments joined by '/'
RECURSIVE RelPath(_)
RelPath(parts) ==
    IF Len(parts) <= 1 THEN (IF parts = <<>> THEN <<>> ELSE parts[1])
    ELSE parts[1] \o <<"/">> \o RelPath(Tail(parts))

\* String.prototype.includes
Includes(s, sub) == \E i \in 1..Len(s) : OccursAt(s, sub, i)

\* a detection that knows a top-level Setups folder only
IsGlobalSetup_TopLevel(f) ==
    /\ Len(f.path) >= 2
    /\ ToLower(f.path[1]) = SetupsLower
    /\ EndsWith(ToLower(FileName(f)), DotJson)

IsGlobalSetup(f) ==
    /\ Len(f.path) >= 2
    /\ \/ Includes(ToLower(RelPath(f.path)), <<"/">> \o SetupsLower \o <<"/">>)
       \/ ToLower(f.path[1]) = SetupsLower
    /\ EndsWith(ToLower(FileName(f)), DotJson)

\* the keys of directoryMap in insertion order
RECURSIVE DirectoryKeys(_, _)
DirectoryKeys(files, seen) ==
    IF files = <<>> THEN <<>>
    ELSE LET k == TestDayFolderOf(Head(files))
         IN  IF k = <<>> \/ k \in seen
             THEN DirectoryKeys(Tail(files), seen)
             ELSE <<k>> \o DirectoryKeys(Tail(files), seen \cup {k})

\* directoryMap.get(key)
DirectoryFiles(files, key) == SelectSeq(files, LAMBDA f : TestDayFolderOf(f) = key)

IsXrk(f) == EndsWith(ToLower(FileName(f)), DotXrk)

XRKFileOf(f) ==
    [name |-> FileName(f), size |-> f.size, lastModified |-> f.lastModified,
     path |-> f.path]

RECURSIVE MapXrk(_)
MapXrk(files) ==
    IF files = <<>> THEN <<>> ELSE <<XRKFileOf(Head(files))>> \o MapXrk(Tail(files))

\* a scan that keeps only the folders that hold telemetry
RECURSIVE ProcessFolders_XrkOnly(_, _)
ProcessFolders_XrkOnly(files, keys) ==
    IF keys = <<>> THEN <<>>
    ELSE LET name == Head(keys)
             xrk == SelectSeq(DirectoryFiles(files, name), IsXrk)
             rest == ProcessFolders_XrkOnly(files, Tail(keys))
         IN  IF MatchTestDay(name).ok /\ Len(xrk) > 0
             THEN <<[name |-> name, path |-> name, xrkFiles |-> MapXrk(xrk)]>> \o rest
             ELSE rest

\* a scan that keeps every folder whose name matches
RECURSIVE ProcessFolders_KeepAll(_, _)
ProcessFolders_KeepAll(files, keys) ==
    IF keys = <<>> THEN <<>>
    ELSE LET name == Head(keys)
             xrk == SelectSeq(DirectoryFiles(files, name), IsXrk)
             rest == ProcessFolders_KeepAll(files, Tail(keys))
         IN  IF MatchTestDay(name).ok
             THEN <<[name |-> name, path |-> name, xrkFiles |-> MapXrk(xrk)]>> \o rest
             ELSE rest

\* the TestDayFolder records of one scan (lines 112-147)
RECURSIVE ProcessFolders(_, _)
ProcessFolders(files, keys) ==
    IF keys = <<>> THEN <<>>
    ELSE LET name == Head(keys)
             group == DirectoryFiles(files, name)
             xrk == SelectSeq(group, IsXrk)
             hasTestDayJson ==
                 \E i \in 1..Len(group) :
                     ~IsXrk(group[i]) /\ ToLower(FileName(group[i])) = TestDayJson
             rest == ProcessFolders(files, Tail(keys))
         IN  IF MatchTestDay(name).ok /\ (Len(xrk) > 0 \/ hasTestDayJson)
             THEN <<[name |-> name, path |-> name, xrkFiles |-> MapXrk(xrk)]>> \o rest
             ELSE rest

\* directoryMap is filled once (lines 91-110) and its entries are then processed
ScanFolders(files) ==
    LET directoryMap == {DirectoryKeys(files, {})}
    IN  CHOOSE folders \in {ProcessFolders(files, keys) : keys \in directoryMap} : TRUE

DetectGlobalSetups(files) == SelectSeq(files, IsGlobalSetup)

RECURSIVE SumXrk(_)
SumXrk(folders) ==
    IF folders = <<>> THEN 0 ELSE Len(Head(folders).xrkFiles) + SumXrk(Tail(folders))

(* --------------------------- importTestDayData ------------------------ *)
\* new Date().toISOString() on day t of the clock: the date of that day (the
\* first ten characters of the ISO string; the time of day is left out)
IsoString(t) == <<"2", "0", "2", "6", "-", "0", "1", "-", "0">> \o NumStr(t + 1)

\* a[i] of a JavaScript array, undefined past its end (i counts from 0)
At(a, i) == IF i + 1 <= Len(a) THEN a[i + 1] ELSE None

\* obj.key of a JavaScript object, undefined when the key is absent
Field(obj, key) == IF key \in DOMAIN obj THEN obj[key] ELSE None

\* testDay.xrkFiles.filter(file => !importedRunPathsRef.current.has(file.path))
NotYetImported(testDay, imported) ==
    SelectSeq(testDay.xrkFiles, LAMBDA f : f.path \notin imported)

\* the run record the map callback builds for the file at `index` of the
\* filtered list (lines 281-290)
NewRun(testDay, file, index, t) ==
    [id |-> LocalDash \o testDay.name \o <<"-">> \o NumStr(index + 1),
     testDayId |-> LocalDash \o testDay.name,
     runNumber |-> index + 1,
     timestamp |-> IsoString(t),
     track |-> OrElse(At(Split(testDay.name, SpaceDashSpace), 1), Unknown),
     drivers |-> <<Unknown>>,
     notes |-> ImportedFrom \o file.name,
     tags |-> <<"imported", "xrk">>]

NewRuns(testDay, imported, t) ==
    LET todo == NotYetImported(testDay, imported)
    IN  [i \in 1..Len(todo) |-> NewRun(testDay, todo[i], i - 1, t)]

\* newRuns.forEach((_, idx) => { const f = testDay.xrkFiles[idx];
\*                               if (f) importedRunPathsRef.current.add(f.path) })
MarkImported(testDay, newRuns, imported) ==
    imported \cup {testDay.xrkFiles[i].path :
                     i \in {j \in 1..Len(newRuns) : j <= Len(testDay.xrkFiles)}}

\* the importedData object handed to onDataImported (lines 298-308)
ImportedData(testDay, imported, t) ==
    LET newRuns == NewRuns(testDay, imported, t)
    IN  [testDays |-> <<[id |-> LocalDash \o testDay.name,
                         date |-> At(Split(testDay.name, SpaceDashSpace), 0),
                         track |-> OrElse(At(Split(testDay.name, SpaceDashSpace), 1),
                                          Unknown),
                         runs |-> Len(newRuns)]>>,
         runs |-> newRuns,
         setups |-> <<>>,
         tireSets |-> <<>>]

(* --------------------------- importGlobalSetups ----------------------- *)
\* file.name.replace(/\.json$/i, '')
StripJson(name) ==
    IF EndsWith(ToLower(name), DotJson) THEN SubSeq(name, 1, Len(name) - 5) ELSE name

\* { id: setupData.id || `setup-${...}`, name: setupData.name || ...,
\*   timestamp: new Date().toISOString(), ...setupData }
SetupFromFile(file, t) ==
    LET setupData == file.text.value
        base == [id |-> OrElse(Field(setupData, "id"), SetupDash \o StripJson(FileName(file))),
                 name |-> OrElse(Field(setupData, "name"), StripJson(FileName(file))),
                 timestamp |-> IsoString(t)]
    IN  [k \in DOMAIN base \cup DOMAIN setupData |->
            IF k \in DOMAIN setupData THEN setupData[k] ELSE base[k]]

(* --------------------------- handleDataImported ----------------------- *)
IdsOf(coll) == {coll[i].id : i \in 1..Len(coll)}

\* the record of `incoming` with the id of record x, x itself when there is none
Incoming(x, incoming) ==
    IF \E k \in 1..Len(incoming) : incoming[k].id = x.id
    THEN incoming[CHOOSE k \in 1..Len(incoming) : incoming[k].id = x.id]
    ELSE x

\* a merge of test days that refreshes the record it holds from the batch
MergeDays_Refresh(prev, incoming) ==
    [i \in 1..Len(prev) |-> Incoming(prev[i], incoming)]
        \o SelectSeq(incoming, LAMBDA d : d.id \notin IdsOf(prev))

\* setDays(prev => [...prev, ...importedData.testDays.filter(d => !existing.has(d.id))])
MergeDays(prev, incoming) ==
    prev \o SelectSeq(incoming, LAMBDA d : d.id \notin IdsOf(prev))

\* a merge of runs that appends the batch without looking at the ids
MergeRuns_Append(prev, incoming) == prev \o incoming

\* setRuns(prev => [...prev, ...importedData.runs.filter(r => !existing.has(r.id))])
MergeRuns(prev, incoming) ==
    prev \o SelectSeq(incoming, LAMBDA r : r.id \notin IdsOf(prev))

\* a merge of setups in which the imported record replaces the one held
MergeSetups_Overwrite(prev, incoming) ==
    [i \in 1..Len(prev) |-> Incoming(prev[i], incoming)]
        \o SelectSeq(incoming, LAMBDA x : x.id \notin IdsOf(prev))

\* setSetups(prev => [...prev, ...importedData.setups.filter(s => !existing.has(s.id))])
MergeSetups(prev, incoming) ==
    prev \o SelectSeq(incoming, LAMBDA x : x.id \notin IdsOf(prev))

\* setTires(prev => [...prev, ...importedData.tireSets.filter(t => !existing.has(t.id))])
MergeTires(prev, incoming) ==
    prev \o SelectSeq(incoming, LAMBDA x : x.id \notin IdsOf(prev))

\* the dataset after handleDataImported(importedData)
Merge(ds, importedData) ==
    [days |-> MergeDays(ds.days, importedData.testDays),
     runs |-> MergeRuns(ds.runs, importedData.runs),
     setups |-> MergeSetups(ds.setups, importedData.setups),
     tires |-> MergeTires(ds.tires, importedData.tireSets)]

EmptyData == [testDays |-> <<>>, runs |-> <<>>, setups |-> <<>>, tireSets |-> <<>>]

(* --------------------------- the initial data -------------------------- *)
initialTires == <<
    [id |-> <<"T", "S", "-", "2", "4", "-", "0", "3", "-", "A">>, compound |-> <<"H", "o", "o", "s", "i", "e", "r", " ", "R", "2", "0">>],
    [id |-> <<"T", "S", "-", "2", "4", "-", "0", "3", "-", "B">>, compound |-> <<"H", "o", "o", "s", "i", "e", "r", " ", "R", "2", "0">>] >>

initialSetups == <<
    [id |-> <<"S", "E", "T", "-", "2", "0", "2", "5", "-", "0", "4", "-", "1", "8", "-", "A", "u", "t", "o", "c", "r", "o", "s", "s">>, name |-> <<"G", "o", "o", "d", " ", "A", "u", "t", "o", "c", "r", "o", "s", "s", " ", "D", "a", "m", "p", " ", "S", "e", "t", "u", "p">>, setupGoal |-> <<"A", "g", "g", "r", "e", "s", "s", "i", "v", "e", " ", "s", "e", "t", "u", "p", " ", "f", "o", "r", " ", "a", "u", "t", "o", "c", "r", "o", "s", "s", " ", "w", "i", "t", "h", " ", "q", "u", "i", "c", "k", " ", "t", "r", "a", "n", "s", "i", "t", "i", "o", "n", "s">>],
    [id |-> <<"S", "E", "T", "-", "2", "0", "2", "5", "-", "0", "4", "-", "1", "9", "-", "E", "n", "d", "u", "r", "a", "n", "c", "e">>, name |-> <<"G", "o", "o", "d", " ", "E", "n", "d", "u", "r", "a", "n", "c", "e", " ", "D", "a", "m", "p", " ", "S", "e", "t", "u", "p">>, setupGoal |-> <<"C", "o", "n", "s", "e", "r", "v", "a", "t", "i", "v", "e", " ", "s", "e", "t", "u", "p", " ", "f", "o", "r", " ", "e", "n", "d", "u", "r", "a", "n", "c", "e", " ", "r", "a", "c", "i", "n", "g">>] >>

initialDays == <<
    [id |-> <<"T", "D", "-", "2", "0", "2", "5", "-", "0", "4", "-", "1", "9", "-", "A", "Y", "R">>, date |-> <<"2", "0", "2", "5", "-", "0", "4", "-", "1", "9">>, track |-> <<"B", "r", "e", "c", "h", "i", "n">>] >>

initialRuns == <<
    [timestamp |-> <<"2", "0", "2", "5", "-", "0", "4", "-", "1", "9", "T", "0", "9", ":", "2", "2", ":", "0", "0">>, drivers |-> <<<<"A", "i", "d", "a", "n">>>>, notes |-> <<"O", "v", "e", "r", "s", "t", "e", "e", "r", " ", "o", "n", " ", "e", "n", "t", "r", "y", ",", " ", "c", "a", "l", "m", "e", "r", " ", "m", "i", "d", "-", "c", "o", "r", "n", "e", "r">>, tags |-> <<"brake-test">>,
     id |-> <<"A", "Y", "R", "-", "2", "0", "2", "5", "-", "0", "4", "-", "1", "9", "-", "R", "0", "1">>, testDayId |-> <<"T", "D", "-", "2", "0", "2", "5", "-", "0", "4", "-", "1", "9", "-", "A", "Y", "R">>, runNumber |-> 1, track |-> <<"B", "r", "e", "c", "h", "i", "n">>],
    [timestamp |-> <<"2", "0", "2", "5", "-", "0", "4", "-", "1", "9", "T", "1", "0", ":", "0", "1", ":", "0", "0">>, drivers |-> <<<<"E", "v", "a", "n">>>>, notes |-> <<"N", "e", "u", "t", "r", "a", "l", ",", " ", "s", "l", "i", "g", "h", "t", " ", "p", "u", "s", "h", " ", "o", "n", " ", "p", "o", "w", "e", "r">>, tags |-> <<"accel">>,
     id |-> <<"A", "Y", "R", "-", "2", "0", "2", "5", "-", "0", "4", "-", "1", "9", "-", "R", "0", "2">>, testDayId |-> <<"T", "D", "-", "2", "0", "2", "5", "-", "0", "4", "-", "1", "9", "-", "A", "Y", "R">>, runNumber |-> 2, track |-> <<"B", "r", "e", "c", "h", "i", "n">>] >>

(* ----------------------------- localStorage ---------------------------- *)
\* JavaScript values that are neither strings nor numbers of the model
NaN == <<"NaN">>
Null == <<"null">>

\* a number in a field that can also hold undefined or NaN
Num(n) == <<"number", n>>

\* parseInt(s) of a string without sign or leading whitespace: the value of
\* its leading digits, NaN when it has none
ParseInt(s) == IF s # <<>> /\ IsDigit(s[1]) THEN Num(DigitsValue(s, 0)) ELSE NaN

\* the optional fields of the record types (those declared with `?`), the
\* only ones a record can hold undefined in
OptionalKeys == {"setupGoal", "driveFolderUrl", "setupId", "tireSetId", "brakeBiasPct",
                 "sessionLead", "notes"}

\* the fields a form fills with the result of parseInt
ParsedKeys == {"brakeBiasPct"}

\* what JSON.parse(JSON.stringify(obj)) gives for an object: a key holding
\* undefined is left out, NaN is written as null
JsonObject(obj) ==
    [k \in {x \in DOMAIN obj : ~(x \in OptionalKeys /\ obj[x] = None)} |->
        IF k \in ParsedKeys /\ obj[k] = NaN THEN Null ELSE obj[k]]

JsonArray(coll) == [i \in 1..Len(coll) |-> JsonObject(coll[i])]

\* an item of localStorage: absent (getItem gives null), or a text that
\* JSON.parse accepts (with the value it yields) or rejects
NoItem == [present |-> FALSE, valid |-> FALSE, value |-> <<>>]
GarbledItem == [present |-> TRUE, valid |-> FALSE, value |-> <<>>]
StoredItem(coll) == [present |-> TRUE, valid |-> TRUE, value |-> JsonArray(coll)]

\* the collections, each stored under the key utfr_<name>
StorageKeys == {"days", "runs", "setups", "tires"}

\* the useState initializers: raw ? JSON.parse(raw) : initial, and initial
\* when JSON.parse throws
Restore(raw, initial) ==
    IF ~raw.present THEN initial
    ELSE IF raw.valid THEN raw.value
    ELSE initial

\* the persist effects of the collections in `changed` have run on ds
Persist(store, changed, ds) ==
    [k \in StorageKeys |-> IF k \in changed THEN StoredItem(ds[k]) ELSE store[k]]

\* the collections handleDataImported sets anew for a payload
ChangedBy(importedData) ==
    (IF Len(importedData.testDays) > 0 THEN {"days"} ELSE {})
      \cup (IF Len(importedData.runs) > 0 THEN {"runs"} ELSE {})
      \cup (IF Len(importedData.setups) > 0 THEN {"setups"} ELSE {})
      \cup (IF Len(importedData.tireSets) > 0 THEN {"tires"} ELSE {})

(* ------------------------------- state -------------------------------- *)
VARIABLES
    session,             \* what the environment does in this behaviour
    disk,                \* the files under the user's folder on disk
    inputFiles,          \* fileInputRef.current.files
    syncStatus,          \* LocalSyncStatus
    testDayFolders,
    progress,
    statusMessage,
    selectedFolderPath,
    globalSetupFiles,
    importedRunPathsRef,
    importedSetupNamesRef,
    setupTasks,          \* importGlobalSetups calls suspended at await file.text()
    baseWriteHandle,     \* the directory handle the user granted, None if none
    utfrWriteHandle,     \* window.utfrWriteHandle
    days, runs, setups, tires,  \* the dashboard's four collections
    storage,             \* localStorage: the items utfr_days, utfr_runs, ...
    urlIn, urlOut,       \* a call of toDriveDownloadURL: its argument, its result
    laps,                \* RaceTracker: the laps of the current stint
    nextLapNum,
    stints,              \* RaceTracker: the completed stints
    selectedStintId,     \* "current" or the id of a completed stint
    running,             \* a lap is being timed
    clock,               \* the last reading of performance.now(), in seconds
    lapStartTs,          \* undefined for null, or the reading when the lap began
    liveLapSec,          \* the lap time on display
    timerRef,            \* <<>> for null, or <<the closure of the interval callback>>
    scanIn, scanOut,     \* one scan: the file list, <<the test-day folders found>>
    scanSetups,          \* and the global setup files it detected
    matchIn, matchOut,   \* one match of the test-day pattern: the segment, <<the result>>
    mounted,             \* LocalGoogleDriveSync is on screen
    liveSyncEnabled,
    liveSyncRef,         \* <<>> for null, <<id>> for the id of an interval timer
    liveCleanup,         \* the last run of the live sync effect returned a cleanup
    timers,              \* the browser's active interval timers (their ids)
    timerSeq             \* the number of setInterval calls so far

syncVars == <<inputFiles, syncStatus, testDayFolders, progress, statusMessage,
              selectedFolderPath, globalSetupFiles, importedRunPathsRef,
              importedSetupNamesRef, setupTasks, baseWriteHandle>>
dataVars == <<days, runs, setups, tires, storage>>
mainVars == <<session, disk, utfrWriteHandle, syncVars, dataVars>>
urlVars == <<urlIn, urlOut>>
lapTimerVars == <<clock, lapStartTs, liveLapSec, timerRef>>
raceVars == <<laps, nextLapNum, stints, selectedStintId, running, lapTimerVars>>
scanVars == <<scanIn, scanOut, scanSetups>>
matchVars == <<matchIn, matchOut>>
liveVars == <<mounted, liveSyncEnabled, liveSyncRef, liveCleanup, timers, timerSeq>>
auxVars == <<urlVars, raceVars, scanVars, matchVars, liveVars>>
vars == <<mainVars, auxVars>>

Dataset == [days |-> days, runs |-> runs, setups |-> setups, tires |-> tires]

\* status messages: the template's fixed text, and the values it prints
Msg(text, name, n, m) == [text |-> text, name |-> name, n |-> n, m |-> m]
NoMsg == Msg("", <<>>, 0, 0)
ScanOkMsg(n, m) == Msg("Successfully found n test day folders with m XRK files", <<>>, n, m)
ScanFailedMsg == Msg("Failed to scan test day folders", <<>>, 0, 0)
ImportedDayMsg(name, n) == Msg("Imported test day name with n new runs", name, n, 0)
ImportingSetupsMsg == Msg("Importing global setups...", <<>>, 0, 0)
ImportedSetupsMsg(n) == Msg("Imported n global setups", <<>>, n, 0)
WriteGrantedMsg(name) == Msg("Write access granted to: name", name, 0, 0)
WriteRefusedMsg == Msg("Write access was not granted.", <<>>, 0, 0)
GrantFirstMsg ==
    Msg("Please grant write access to your UTFR Test Data folder first.", <<>>, 0, 0)
EnterBothMsg == Msg("Please enter both a Date and a Venue.", <<>>, 0, 0)
CreatedDayMsg(name) == Msg("Created test day folder: name (with Data Dump/)", name, 0, 0)
CreateFailedMsg ==
    Msg("Failed to create test day folder. Your browser may not support folder write access.",
        <<>>, 0, 0)

\* error.message of the errors a scan can die of (a TypeError on a file entry
\* without a path)
ScanErrors == {<<"T", "y", "p", "e", "E", "r", "r", "o", "r">>}

\* the component state of LocalGoogleDriveSync after mounting (lines 44-64)
SyncInit ==
    /\ inputFiles = <<>>
    /\ syncStatus = [isConnected |-> FALSE, isScanning |-> FALSE, totalTestDays |-> 0,
                     totalXRKFiles |-> 0, lastScanTime |-> None, error |-> None]
    /\ testDayFolders = <<>>
    /\ progress = 0
    /\ statusMessage = NoMsg
    /\ selectedFolderPath = <<>>
    /\ globalSetupFiles = <<>>
    /\ importedRunPathsRef = {}
    /\ importedSetupNamesRef = {}
    /\ setupTasks = <<>>
    /\ baseWriteHandle = None

\* the behaviours of the environment the model explores: which files of the
\* universe the team drops into the folder (telemetry, setups, or one of
\* each), whether the user edits setups, whether the user grants write
\* access and creates test day folders, and whether the user works on the
\* collections in the dashboard, and whether items of localStorage are lost
\* or garbled
Sessions == {
    [files |-> {1, 2, 3}, edits |-> FALSE, writes |-> FALSE, crud |-> FALSE, tampers |-> FALSE],
    [files |-> {4, 5, 6}, edits |-> TRUE, writes |-> FALSE, crud |-> FALSE, tampers |-> FALSE],
    [files |-> {1, 4, 7}, edits |-> FALSE, writes |-> FALSE, crud |-> FALSE, tampers |-> FALSE],
    [files |-> {1}, edits |-> FALSE, writes |-> TRUE, crud |-> FALSE, tampers |-> FALSE],
    [files |-> {}, edits |-> FALSE, writes |-> FALSE, crud |-> TRUE, tampers |-> FALSE],
    [files |-> {4}, edits |-> TRUE, writes |-> FALSE, crud |-> FALSE, tampers |-> TRUE],
    [files |-> {8}, edits |-> FALSE, writes |-> FALSE, crud |-> FALSE, tampers |-> FALSE],
    [files |-> {1, 8}, edits |-> FALSE, writes |-> FALSE, crud |-> FALSE, tampers |-> FALSE] }

\* no call of toDriveDownloadURL is under way
UrlIdle == urlIn = <<>> /\ urlOut = None

\* the Race Tracker as it is mounted
RaceInit ==
    /\ laps = <<>>
    /\ nextLapNum = 1
    /\ stints = <<>>
    /\ selectedStintId = "current"
    /\ running = FALSE
    /\ clock = 0
    /\ lapStartTs = None
    /\ liveLapSec = 0
    /\ timerRef = <<>>

\* no scan and no match of the pattern is under way
ScanIdle == scanIn = <<>> /\ scanOut = <<>> /\ scanSetups = <<>>
MatchIdle == matchIn = <<>> /\ matchOut = <<>>

\* the sync component as it is mounted: live sync off, no timer
LiveIdle ==
    /\ mounted = TRUE
    /\ liveSyncEnabled = FALSE
    /\ liveSyncRef = <<>>
    /\ liveCleanup = FALSE
    /\ timers = {}
    /\ timerSeq = 0

Init ==
    /\ UrlIdle
    /\ RaceInit
    /\ ScanIdle
    /\ MatchIdle
    /\ LiveIdle
    /\ session \in Sessions
    /\ disk = {}
    /\ utfrWriteHandle = None
    /\ SyncInit
    /\ days = initialDays
    /\ runs = initialRuns
    /\ setups = initialSetups
    /\ tires = initialTires
    /\ storage = [k \in StorageKeys |-> StoredItem(
                      [days |-> initialDays, runs |-> initialRuns,
                       setups |-> initialSetups, tires |-> initialTires][k])]

(* ----------------------------- environment ---------------------------- *)
\* the team drops a file into the shared folder: the logger numbers its
\* runs and the setups are saved in turn, so the files of a kind (telemetry,
\* other) appear in canonical order
AddFile(i) ==
    /\ i \in session.files
    /\ Universe[i] \notin disk
    /\ \A j \in 1..(i - 1) :
           (j \in session.files /\ IsXrk(Universe[j]) = IsXrk(Universe[i]))
               => Universe[j] \in disk
    /\ disk' = disk \cup {Universe[i]}
    /\ UNCHANGED <<auxVars, session, utfrWriteHandle, syncVars, dataVars>>

(* ---------------------------- scan actions ---------------------------- *)
\* a scan start that leaves the error of the scan before in place
ScanStartStatus_KeepError(prev) == [prev EXCEPT !.isScanning = TRUE]

\* setSyncStatus(prev => ({ ...prev, isScanning: true, error: undefined }))
ScanStartStatus(prev) == [prev EXCEPT !.isScanning = TRUE, !.error = None]

\* the status after a completed scan (lines 154-161)
ScanDoneStatus(prev, folders, t) ==
    [prev EXCEPT !.totalTestDays = Len(folders),
                 !.totalXRKFiles = SumXrk(folders),
                 !.lastScanTime = IsoString(t),
                 !.isScanning = FALSE,
                 !.isConnected = TRUE]

\* the status the catch block leaves (lines 168-172)
ScanFailedStatus(prev, message) ==
    [prev EXCEPT !.isScanning = FALSE, !.error = message]

\* a scan that empties the lists when it starts and fills them at its end
Scan_ClearFirst(files, fault) ==
    IF fault = None
    THEN LET folders == ScanFolders(files)
         IN  /\ testDayFolders' = folders
             /\ globalSetupFiles' = DetectGlobalSetups(files)
             /\ syncStatus' = ScanDoneStatus(ScanStartStatus(syncStatus), folders, Today)
             /\ progress' = 100
             /\ statusMessage' = ScanOkMsg(Len(folders), SumXrk(folders))
    ELSE /\ syncStatus' = ScanFailedStatus(ScanStartStatus(syncStatus), fault)
         /\ progress' = 10
         /\ statusMessage' = ScanFailedMsg
         /\ testDayFolders' = <<>>
         /\ globalSetupFiles' = <<>>

\* scanForTestDayFolders(files): it has no await, so it runs to its end in
\* one step.  fault is the message of the error thrown inside the try block
\* (while the files are grouped, before setProgress(30)), None if none.
Scan(files, fault) ==
    IF fault = None
    THEN LET folders == ScanFolders(files)
         IN  /\ testDayFolders' = folders
             /\ globalSetupFiles' = DetectGlobalSetups(files)
             /\ syncStatus' = ScanDoneStatus(ScanStartStatus(syncStatus), folders, Today)
             /\ progress' = 100
             /\ statusMessage' = ScanOkMsg(Len(folders), SumXrk(folders))
    ELSE /\ syncStatus' = ScanFailedStatus(ScanStartStatus(syncStatus), fault)
         /\ progress' = 10
         /\ statusMessage' = ScanFailedMsg
         /\ UNCHANGED <<testDayFolders, globalSetupFiles>>

\* the user picks the folder: the picker hands over the files now on disk
HandleFolderSelect(order, fault) ==
    LET files == Enumerate(disk, order)
    IN  /\ Len(files) > 0
        /\ inputFiles' = files
        /\ selectedFolderPath' = OrElse(files[1].path[1], <<"S", "e", "l", "e", "c", "t", "e", "d", " ", "F", "o", "l", "d", "e", "r">>)
        /\ Scan(files, fault)
        /\ UNCHANGED <<auxVars, session, disk, utfrWriteHandle, importedRunPathsRef,
                       importedSetupNamesRef, setupTasks, baseWriteHandle, dataVars>>

\* the "Rescan Now" button
RescanNow(fault) ==
    /\ Len(inputFiles) > 0
    /\ Scan(inputFiles, fault)
    /\ UNCHANGED <<auxVars, session, disk, utfrWriteHandle, inputFiles, selectedFolderPath,
                   importedRunPathsRef, importedSetupNamesRef, setupTasks,
                   baseWriteHandle, dataVars>>

(* --------------------------- import actions --------------------------- *)
\* the collections after the state updates, and the persist effects of the
\* collections that were set anew
SetDataset(ds, changed) ==
    /\ days' = ds.days
    /\ runs' = ds.runs
    /\ setups' = ds.setups
    /\ tires' = ds.tires
    /\ storage' = Persist(storage, changed, ds)

\* the "IMPORT DATA" button of folder i (disabled while it lists no files)
ImportTestDay(i) ==
    /\ i \in 1..Len(testDayFolders)
    /\ Len(testDayFolders[i].xrkFiles) > 0
    /\ LET testDay == testDayFolders[i]
           importedData == ImportedData(testDay, importedRunPathsRef, Today)
       IN  /\ importedRunPathsRef' =
                  MarkImported(testDay, importedData.runs, importedRunPathsRef)
           /\ SetDataset(Merge(Dataset, importedData), ChangedBy(importedData))
           /\ statusMessage' = ImportedDayMsg(testDay.name, Len(importedData.runs))
    /\ UNCHANGED <<auxVars, session, disk, utfrWriteHandle, inputFiles, syncStatus,
                   testDayFolders, progress, selectedFolderPath, globalSetupFiles,
                   importedSetupNamesRef, setupTasks, baseWriteHandle>>

\* testDayFolders.forEach(folder => importTestDayData(folder)): the state
\* after the calls for folders[k..], each applied to the result of the one
\* before (the merge uses functional state updates)
RECURSIVE ImportAllFrom(_, _, _, _, _)
ImportAllFrom(folders, k, imported, ds, t) ==
    IF k > Len(folders) THEN [imported |-> imported, ds |-> ds, changed |-> {}]
    ELSE LET importedData == ImportedData(folders[k], imported, t)
             rest == ImportAllFrom(folders, k + 1,
                                   MarkImported(folders[k], importedData.runs, imported),
                                   Merge(ds, importedData), t)
         IN  [rest EXCEPT !.changed = rest.changed \cup ChangedBy(importedData)]

\* the payloads of the calls importTestDayData(folders[k]), ..., each built
\* under the bookkeeping the calls before it left
RECURSIVE ImportAllBatches(_, _, _, _)
ImportAllBatches(folders, k, imported, t) ==
    IF k > Len(folders) THEN <<>>
    ELSE LET importedData == ImportedData(folders[k], imported, t)
         IN  <<importedData>>
                 \o ImportAllBatches(folders, k + 1,
                                     MarkImported(folders[k], importedData.runs, imported), t)

\* the field of the payload that is merged into the collection
PayloadKey(key) == IF key = "days" THEN "testDays"
                   ELSE IF key = "tires" THEN "tireSets" ELSE key

\* the updater handleDataImported passes to the collection's setter
Updater(key, prev, incoming) ==
    CASE key = "days" -> MergeDays(prev, incoming)
      [] key = "runs" -> MergeRuns(prev, incoming)
      [] key = "setups" -> MergeSetups(prev, incoming)
      [] key = "tires" -> MergeTires(prev, incoming)

\* the updaters queued for a collection by the payloads of one event: one
\* for each payload whose list is not empty
RECURSIVE UpdateQueue(_, _)
UpdateQueue(batches, key) ==
    IF batches = <<>> THEN <<>>
    ELSE (IF Len(Head(batches)[PayloadKey(key)]) > 0
          THEN <<Head(batches)[PayloadKey(key)]>> ELSE <<>>)
             \o UpdateQueue(Tail(batches), key)

\* a render that hands every queued updater the state of the event's start
ApplyUpdates_Stale(key, prev, queue) ==
    IF queue = <<>> THEN prev ELSE Updater(key, prev, queue[Len(queue)])

\* the next render: each queued updater gets the result of the one before
RECURSIVE ApplyUpdates(_, _, _)
ApplyUpdates(key, prev, queue) ==
    IF queue = <<>> THEN prev
    ELSE ApplyUpdates(key, Updater(key, prev, Head(queue)), Tail(queue))

Rendered(ds, batches) ==
    [key \in StorageKeys |-> ApplyUpdates(key, ds[key], UpdateQueue(batches, key))]

\* the "IMPORT ALL" button
ImportAll ==
    /\ Len(testDayFolders) > 0
    /\ LET res == ImportAllFrom(testDayFolders, 1, importedRunPathsRef, Dataset, Today)
           last == testDayFolders[Len(testDayFolders)]
           \* what the last call saw: the bookkeeping left by the calls before it
           before == ImportAllFrom(SubSeq(testDayFolders, 1, Len(testDayFolders) - 1),
                                   1, importedRunPathsRef, Dataset, Today)
           lastData == ImportedData(last, before.imported, Today)
       IN  /\ importedRunPathsRef' = res.imported
           /\ SetDataset(Rendered(Dataset, ImportAllBatches(testDayFolders, 1,
                                                           importedRunPathsRef, Today)),
                         res.changed)
           /\ statusMessage' = ImportedDayMsg(last.name, Len(lastData.runs))
    /\ UNCHANGED <<auxVars, session, disk, utfrWriteHandle, inputFiles, syncStatus,
                   testDayFolders, progress, selectedFolderPath, globalSetupFiles,
                   importedSetupNamesRef, setupTasks, baseWriteHandle>>

\* the first index >= start of a file the loop does not skip
\* (importedSetupNamesRef.current.has(file.name) -> continue), Len + 1 if none
RECURSIVE NextToRead(_, _, _)
NextToRead(files, start, names) ==
    IF start > Len(files) THEN start
    ELSE IF FileName(files[start]) \in names THEN NextToRead(files, start + 1, names)
         ELSE start

RemoveAt(seq, k) == SubSeq(seq, 1, k - 1) \o SubSeq(seq, k + 1, Len(seq))

\* the end of importGlobalSetups (lines 341-344)
FinishGlobalSetups(importedSetups) ==
    /\ IF Len(importedSetups) > 0
       THEN SetDataset(Merge(Dataset, [EmptyData EXCEPT !.setups = importedSetups]),
                       {"setups"})
       ELSE UNCHANGED dataVars
    /\ statusMessage' = ImportedSetupsMsg(Len(importedSetups))

\* the "IMPORT GLOBAL SETUPS" button: the call runs up to its first
\* await file.text(), or to its end when it skips every file
StartImportGlobalSetups ==
    /\ Len(globalSetupFiles) > 0
    /\ Len(setupTasks) < MaxSetupTasks
    /\ LET j == NextToRead(globalSetupFiles, 1, importedSetupNamesRef)
       IN  IF j > Len(globalSetupFiles)
           THEN /\ FinishGlobalSetups(<<>>)
                /\ UNCHANGED setupTasks
           ELSE /\ setupTasks' = Append(setupTasks,
                        [files |-> globalSetupFiles, i |-> j,
                         importedSetups |-> <<>>, warned |-> <<>>])
                /\ statusMessage' = ImportingSetupsMsg
                /\ UNCHANGED dataVars
    /\ UNCHANGED <<auxVars, session, disk, utfrWriteHandle, inputFiles, syncStatus,
                   testDayFolders, progress, selectedFolderPath, globalSetupFiles,
                   importedRunPathsRef, importedSetupNamesRef, baseWriteHandle>>

\* one turn of the loop of importGlobalSetups for the file the call waits
\* for (lines 327-339): JSON.parse, then push and remember the name, or warn;
\* and on to the next file the loop does not skip
ReadSetupFile(task, names, t) ==
    LET file == task.files[task.i]
        ok == file.text.valid
        names2 == IF ok THEN names \cup {FileName(file)} ELSE names
    IN  [task |-> [files |-> task.files,
                   i |-> NextToRead(task.files, task.i + 1, names2),
                   importedSetups |->
                       IF ok THEN Append(task.importedSetups, SetupFromFile(file, t))
                       ELSE task.importedSetups,
                   warned |-> IF ok THEN task.warned
                              ELSE Append(task.warned, FileName(file))],
         names |-> names2]

\* file.text() of suspended call k resolves: the call runs to its next await
\* or to its end
ResumeImportGlobalSetups(k) ==
    /\ k \in 1..Len(setupTasks)
    /\ LET step == ReadSetupFile(setupTasks[k], importedSetupNamesRef, Today)
       IN  /\ importedSetupNamesRef' = step.names
           /\ IF step.task.i > Len(step.task.files)
              THEN /\ FinishGlobalSetups(step.task.importedSetups)
                   /\ setupTasks' = RemoveAt(setupTasks, k)
              ELSE /\ setupTasks' = [setupTasks EXCEPT ![k] = step.task]
                   /\ UNCHANGED <<statusMessage, dataVars>>
    /\ UNCHANGED <<auxVars, session, disk, utfrWriteHandle, inputFiles, syncStatus,
                   testDayFolders, progress, selectedFolderPath, globalSetupFiles,
                   importedRunPathsRef, baseWriteHandle>>

(* ---------------------------- write access ---------------------------- *)
\* requestWriteAccess: the directory picker resolves with the handle of the
\* folder the user picks, or rejects (cancelled, not supported)
RequestWriteAccess(granted) ==
    /\ session.writes
    /\ IF granted
       THEN /\ baseWriteHandle' = RootDir
            /\ utfrWriteHandle' = RootDir
            /\ statusMessage' = WriteGrantedMsg(RootDir)
       ELSE /\ statusMessage' = WriteRefusedMsg
            /\ UNCHANGED <<baseWriteHandle, utfrWriteHandle>>
    /\ UNCHANGED <<auxVars, session, disk, inputFiles, syncStatus, testDayFolders, progress,
                   selectedFolderPath, globalSetupFiles, importedRunPathsRef,
                   importedSetupNamesRef, setupTasks, dataVars>>

\* the "Create Test Day Folder" button with the two fields as typed; ok says
\* whether the file system calls succeed
CreateTestDayOnDisk(newDayDate, newDayVenue, ok) ==
    /\ session.writes
    /\ IF baseWriteHandle = None
       THEN statusMessage' = GrantFirstMsg /\ UNCHANGED disk
       ELSE IF ~Truthy(newDayDate) \/ ~Truthy(newDayVenue)
       THEN statusMessage' = EnterBothMsg /\ UNCHANGED disk
       ELSE IF ok
       THEN /\ disk' = WriteFile(disk, TestDayJsonPath(newDayDate, newDayVenue),
                                 JsonText([date |-> newDayDate, track |-> newDayVenue,
                                           createdAt |-> IsoString(Today)]))
            /\ statusMessage' = CreatedDayMsg(FolderNameOf(newDayDate, newDayVenue))
       ELSE statusMessage' = CreateFailedMsg /\ UNCHANGED disk
    /\ UNCHANGED <<auxVars, session, utfrWriteHandle, inputFiles, syncStatus, testDayFolders,
                   progress, selectedFolderPath, globalSetupFiles, importedRunPathsRef,
                   importedSetupNamesRef, setupTasks, baseWriteHandle, dataVars>>

(* -------------------------- dashboard actions ------------------------- *)
\* SetupForm.save() for an existing setup: the record the form builds
SavedSetup(existingSetup, name, t) ==
    [id |-> OrElse(existingSetup.id, SetDash \o IsoString(t) \o <<"-">> \o StripSpaces(name)),
     name |-> name,
     setupGoal |-> OrElse(Field(existingSetup, "setupGoal"), None)]

\* JSON.stringify of an object: the keys whose value is undefined are left out
DropUndefined(obj) ==
    [k \in {x \in DOMAIN obj : obj[x] # None} |-> obj[k]]

\* the files on disk after tryAutoWriteSetup(setup): nothing is written
\* without a write handle
AutoWriteSetup(onDisk, handle, setup, t) ==
    IF handle = None THEN onDisk
    ELSE WriteFile(onDisk, SetupFilePath(setup.name),
                   JsonText(DropUndefined([id |-> setup.id, name |-> setup.name,
                                           timestamp |-> IsoString(t),
                                           setupGoal |-> Field(setup, "setupGoal")])))

\* onSave of the edit dialog of setup i:
\* setSetups(prev => prev.map(setup => setup.id === s.id ? updatedSetup : setup));
\* tryAutoWriteSetup(updatedSetup)
EditSetup(i, name) ==
    /\ session.edits
    /\ i \in 1..Len(setups)
    /\ Truthy(name)
    /\ LET s == setups[i]
           updatedSetup == SavedSetup(s, name, Today)
       IN  /\ SetDataset([Dataset EXCEPT !.setups =
                              [j \in 1..Len(setups) |->
                                  IF setups[j].id = s.id THEN updatedSetup ELSE setups[j]]],
                          {"setups"})
           /\ disk' = AutoWriteSetup(disk, utfrWriteHandle, updatedSetup, Today)
    /\ UNCHANGED <<auxVars, session, utfrWriteHandle, syncVars>>

\* what the user types into the forms of the dashboard
FormDates == {<<>>, <<"2", "0", "2", "5", "-", "0", "4", "-", "1", "9">>}
FormTracks == {<<"A", "y", "r">>}
FormRunNumbers == {1}
FormBiases == {<<>>, <<"5", "5">>, <<"a", "b", "c">>}
FormTireIds == {<<"T", "S", "-", "C">>}
FormSetupNames == {<<"D", "r", "y">>}

\* NewDayForm, the Create button: setDays(prev => [...prev, d])
NewDay(date, track) ==
    /\ session.crud
    /\ Len(days) < Len(initialDays) + MaxCreated
    /\ Truthy(date) /\ Truthy(track)
    /\ LET d == [id |-> <<"T", "D", "-">> \o date \o <<"-">> \o ToUpper(Substring0(track, 3)),
                 date |-> date, track |-> track, sessionLead |-> <<>>, notes |-> <<>>,
                 driveFolderUrl |-> None]
       IN  SetDataset([Dataset EXCEPT !.days = Append(days, d)], {"days"})
    /\ UNCHANGED <<auxVars, session, disk, utfrWriteHandle, syncVars>>

\* makeRunId(td, runNumber)
makeRunId(td, runNumber) ==
    ToUpper(Substring0(td.track, 3)) \o <<"-">> \o td.date \o <<"-", "R">> \o PadStart2(runNumber)

\* RunForm.save for a new run of day td, with the fields as typed
NewRunOfForm(td, runNumber, bias) ==
    [id |-> makeRunId(td, runNumber),
     testDayId |-> td.id,
     runNumber |-> runNumber,
     timestamp |-> td.date \o <<"T", "0", "9", ":", "0", "0", ":", "0", "0">>,
     track |-> td.track,
     drivers |-> <<>>,
     setupId |-> None,
     tireSetId |-> None,
     brakeBiasPct |-> IF Truthy(bias) THEN ParseInt(bias) ELSE None,
     notes |-> <<>>,
     tags |-> <<>>,
     dataLinks |-> <<>>]

\* the runs after upsertRun(r)
UpsertedRuns(prev, r) ==
    IF \E i \in 1..Len(prev) : prev[i].id = r.id
    THEN LET i == CHOOSE j \in 1..Len(prev) :
                      prev[j].id = r.id /\ \A h \in 1..(j - 1) : prev[h].id # r.id
         IN  [prev EXCEPT ![i] = r]
    ELSE Append(prev, r)

\* the files on disk after upsertRun wrote the run's description; nothing
\* is written without a write handle or when the run's test day is unknown
RunFileWritten(onDisk, handle, r) ==
    IF handle = None \/ ~\E i \in 1..Len(days) : days[i].id = r.testDayId THEN onDisk
    ELSE LET testDay == days[CHOOSE i \in 1..Len(days) :
                                 days[i].id = r.testDayId
                                   /\ \A h \in 1..(i - 1) : days[h].id # r.testDayId]
         IN  WriteFile(onDisk,
                       <<RootDir, FolderNameOf(testDay.date, testDay.track),
                         <<"D", "a", "t", "a", " ", "D", "u", "m", "p">>,
                         <<"r", "u", "n", "-">> \o PadStart2(r.runNumber) \o DotJson>>,
                       JsonText([id |-> r.id, runNumber |-> r.runNumber,
                                 timestamp |-> r.timestamp, drivers |-> r.drivers,
                                 notes |-> OrElse(Field(r, "notes"), <<>>)]))

\* the New Run dialog of the active day k: upsertRun({...r, id: makeRunId(...)})
SaveNewRun(k, runNumber, bias) ==
    /\ session.crud
    /\ k \in 1..Len(days)
    /\ Len(runs) < Len(initialRuns) + MaxCreated
    /\ LET nr == NewRunOfForm(days[k], runNumber, bias)
       IN  /\ SetDataset([Dataset EXCEPT !.runs = UpsertedRuns(runs, nr)], {"runs"})
           /\ disk' = RunFileWritten(disk, utfrWriteHandle, nr)
    /\ UNCHANGED <<auxVars, session, utfrWriteHandle, syncVars>>

\* deleteRun(id) of run i of the table
DeleteRun(i) ==
    /\ session.crud
    /\ i \in 1..Len(runs)
    /\ SetDataset([Dataset EXCEPT !.runs = SelectSeq(runs, LAMBDA r : r.id # runs[i].id)],
                  {"runs"})
    /\ UNCHANGED <<auxVars, session, disk, utfrWriteHandle, syncVars>>

\* onSave of the Create Setup dialog: setSetups(prev => [...prev, s]);
\* tryAutoWriteSetup(s)
CreateSetup(name) ==
    /\ session.crud
    /\ Len(setups) < Len(initialSetups) + MaxCreated
    /\ Truthy(name)
    /\ LET st == SavedSetup([id |-> None], name, Today)
       IN  /\ SetDataset([Dataset EXCEPT !.setups = Append(setups, st)], {"setups"})
           /\ disk' = AutoWriteSetup(disk, utfrWriteHandle, st, Today)
    /\ UNCHANGED <<auxVars, session, utfrWriteHandle, syncVars>>

\* TireForm, the Save button: setTires(prev => [...prev, t])
CreateTire(id) ==
    /\ session.crud
    /\ Len(tires) < Len(initialTires) + MaxCreated
    /\ SetDataset([Dataset EXCEPT !.tires =
                       Append(tires, [id |-> id,
                                      compound |-> <<"H", "o", "o", "s", "i", "e", "r", " ", "R", "2", "0">>,
                                      size |-> <<"1", "6", "x", "7", ".", "5">>,
                                      notes |-> <<>>])],
                  {"tires"})
    /\ UNCHANGED <<auxVars, session, disk, utfrWriteHandle, syncVars>>

\* the collections as the useState initializers restore them from a store
Restored(store) ==
    [days |-> Restore(store.days, initialDays),
     runs |-> Restore(store.runs, initialRuns),
     setups |-> Restore(store.setups, initialSetups),
     tires |-> Restore(store.tires, initialTires)]

\* an item of localStorage is removed or overwritten from outside the
\* dashboard (site data cleared, another version of the page)
TamperStorage(k, item) ==
    /\ session.tampers
    /\ \A j \in StorageKeys : storage[j].present /\ storage[j].valid
    /\ storage' = [storage EXCEPT ![k] = item]
    /\ UNCHANGED <<auxVars, session, disk, utfrWriteHandle, syncVars, days, runs, setups, tires>>

\* the page is reloaded: the collections come back from localStorage (and
\* the persist effects run on mount), the sync component mounts anew and
\* suspended calls die with the old page
Reload ==
    /\ inputFiles' = <<>>
    /\ syncStatus' = [isConnected |-> FALSE, isScanning |-> FALSE, totalTestDays |-> 0,
                      totalXRKFiles |-> 0, lastScanTime |-> None, error |-> None]
    /\ testDayFolders' = <<>>
    /\ progress' = 0
    /\ statusMessage' = NoMsg
    /\ selectedFolderPath' = <<>>
    /\ globalSetupFiles' = <<>>
    /\ importedRunPathsRef' = {}
    /\ importedSetupNamesRef' = {}
    /\ setupTasks' = <<>>
    /\ baseWriteHandle' = None
    /\ utfrWriteHandle' = None
    /\ SetDataset(Restored(storage), StorageKeys)
    /\ UNCHANGED <<auxVars, session, disk>>

Faults == {None} \cup ScanErrors

Next ==
    \/ \E i \in 1..Len(Universe) : AddFile(i)
    \/ \E order \in EnumOrders, fault \in Faults : HandleFolderSelect(order, fault)
    \/ \E fault \in Faults : RescanNow(fault)
    \/ \E i \in 1..Len(testDayFolders) : ImportTestDay(i)
    \/ ImportAll
    \/ StartImportGlobalSetups
    \/ \E k \in 1..Len(setupTasks) : ResumeImportGlobalSetups(k)
    \/ \E i \in 1..Len(setups), name \in EditedNames : EditSetup(i, name)
    \/ \E granted \in BOOLEAN : RequestWriteAccess(granted)
    \/ \E d \in NewDayDates, v \in NewDayVenues, ok \in BOOLEAN : CreateTestDayOnDisk(d, v, ok)
    \/ \E date \in FormDates, track \in FormTracks : NewDay(date, track)
    \/ \E k \in 1..Len(days), n \in FormRunNumbers, bias \in FormBiases : SaveNewRun(k, n, bias)
    \/ \E i \in 1..Len(runs) : DeleteRun(i)
    \/ \E name \in FormSetupNames : CreateSetup(name)
    \/ \E id \in FormTireIds : CreateTire(id)
    \/ \E k \in StorageKeys, item \in {NoItem, GarbledItem} : TamperStorage(k, item)
    \/ Reload

Spec == Init /\ [][Next]_vars

(* ------------------------------ live sync ------------------------------ *)
MaxTimers == 2

\* the folder the user works in while live sync is in use
LiveSession ==
    [files |-> {1, 4}, edits |-> FALSE, writes |-> FALSE, crud |-> FALSE, tampers |-> FALSE]

LiveInit ==
    /\ UrlIdle
    /\ RaceInit
    /\ ScanIdle
    /\ MatchIdle
    /\ LiveIdle
    /\ session = LiveSession
    /\ disk = {}
    /\ utfrWriteHandle = None
    /\ SyncInit
    /\ days = initialDays
    /\ runs = initialRuns
    /\ setups = initialSetups
    /\ tires = initialTires
    /\ storage = [k \in StorageKeys |-> StoredItem(
                      [days |-> initialDays, runs |-> initialRuns,
                       setups |-> initialSetups, tires |-> initialTires][k])]

\* a clearInterval that has no effect
ClearInterval_Lost(ref, active) == active

\* if (liveSyncRef.current) window.clearInterval(liveSyncRef.current):
\* the timers left active
ClearInterval(ref, active) == active \ {ref[i] : i \in 1..Len(ref)}

\* the live sync checkbox: setLiveSyncEnabled(e.target.checked), then the
\* effect on [liveSyncEnabled]: the cleanup the run before returned, then
\* the body.  When the body finds no files it returns before setInterval;
\* otherwise it calls tick() at once, which scans input.files.
ToggleLiveSync(fault) ==
    /\ mounted
    /\ liveSyncEnabled' = ~liveSyncEnabled
    /\ LET cleaned == IF liveCleanup THEN ClearInterval(liveSyncRef, timers) ELSE timers
           ref == IF liveCleanup THEN <<>> ELSE liveSyncRef
       IN  IF liveSyncEnabled
           THEN \* switched off
                /\ fault = None
                /\ timers' = ClearInterval(ref, cleaned)
                /\ liveSyncRef' = <<>>
                /\ liveCleanup' = FALSE
                /\ UNCHANGED <<timerSeq, syncVars>>
           ELSE IF Len(inputFiles) = 0
           THEN \* switched on, no folder selected
                /\ fault = None
                /\ timers' = cleaned
                /\ liveSyncRef' = ref
                /\ liveCleanup' = FALSE
                /\ UNCHANGED <<timerSeq, syncVars>>
           ELSE \* switched on
                /\ timerSeq < MaxTimers
                /\ Scan(inputFiles, fault)
                /\ timerSeq' = timerSeq + 1
                /\ timers' = cleaned \cup {timerSeq + 1}
                /\ liveSyncRef' = <<timerSeq + 1>>
                /\ liveCleanup' = TRUE
                /\ UNCHANGED <<inputFiles, selectedFolderPath, importedRunPathsRef,
                               importedSetupNamesRef, setupTasks, baseWriteHandle>>
    /\ UNCHANGED <<mounted, session, disk, utfrWriteHandle, dataVars,
                   urlVars, raceVars, scanVars, matchVars>>

\* an interval timer fires: tick() scans the files the input holds now
TimerTick(id, fault) ==
    /\ id \in timers
    /\ Len(inputFiles) > 0
    /\ Scan(inputFiles, fault)
    /\ UNCHANGED <<session, disk, utfrWriteHandle, inputFiles, selectedFolderPath,
                   importedRunPathsRef, importedSetupNamesRef, setupTasks,
                   baseWriteHandle, dataVars, urlVars, raceVars, scanVars, matchVars,
                   liveVars>>

\* the component leaves the screen: the cleanup of the effect runs
Unmount ==
    /\ mounted
    /\ mounted' = FALSE
    /\ timers' = IF liveCleanup THEN ClearInterval(liveSyncRef, timers) ELSE timers
    /\ liveSyncRef' = IF liveCleanup THEN <<>> ELSE liveSyncRef
    /\ liveCleanup' = FALSE
    /\ UNCHANGED <<liveSyncEnabled, timerSeq, mainVars, urlVars, raceVars, scanVars,
                   matchVars>>

LiveNext ==
    \/ \E i \in 1..Len(Universe) : AddFile(i)
    \/ \E order \in EnumOrders, fault \in Faults : mounted /\ HandleFolderSelect(order, fault)
    \/ \E fault \in Faults : ToggleLiveSync(fault)
    \/ \E id \in 1..MaxTimers, fault \in Faults : TimerTick(id, fault)
    \/ Unmount

LiveSpec == LiveInit /\ [][LiveNext]_vars

\* the browser runs a timer that is due
LiveFairSpec ==
    LiveSpec /\ WF_vars(\E id \in 1..MaxTimers, fault \in Faults : TimerTick(id, fault))

(* ------------------------- toDriveDownloadURL -------------------------- *)
\* the dashboard before the user has done anything
MainIdle ==
    /\ session = [files |-> {}, edits |-> FALSE, writes |-> FALSE, crud |-> FALSE,
                  tampers |-> FALSE]
    /\ disk = {}
    /\ utfrWriteHandle = None
    /\ SyncInit
    /\ days = initialDays
    /\ runs = initialRuns
    /\ setups = initialSetups
    /\ tires = initialTires
    /\ storage = [k \in StorageKeys |-> StoredItem(
                      [days |-> initialDays, runs |-> initialRuns,
                       setups |-> initialSetups, tires |-> initialTires][k])]

\* {10,}
MinIdLen == 10

FileD == <<"f", "i", "l", "e", "/", "d", "/">>
IdEq == <<"i", "d", "=">>
DriveDownload == <<"h", "t", "t", "p", "s", ":", "/", "/", "d", "r", "i", "v", "e", ".", "g", "o", "o", "g", "l", "e", ".", "c", "o", "m", "/", "u", "c", "?", "e", "x", "p", "o", "r", "t", "=", "d", "o", "w", "n", "l", "o", "a", "d", "&", "i", "d", "=">>

\* [A-Za-z0-9_-]
IsIdChar(c) == IsAlnum(c) \/ c \in {"_", "-"}

\* the length of the longest run of id characters of s from position p on
RECURSIVE IdRun(_, _)
IdRun(s, p) == IF p <= Len(s) /\ IsIdChar(s[p]) THEN 1 + IdRun(s, p + 1) ELSE 0

\* (?:file\/d\/|id=) at position i: the length of the alternative that matches, 0 if none
MarkerAt(s, i) ==
    IF OccursAt(s, FileD, i) THEN Len(FileD)
    ELSE IF OccursAt(s, IdEq, i) THEN Len(IdEq)
    ELSE 0

\* url.match(/(?:file\/d\/|id=)([A-Za-z0-9_-]{10,})/): the capture group of
\* the leftmost match from position i on, undefined when there is no match
RECURSIVE IdMatchFrom(_, _)
IdMatchFrom(url, i) ==
    IF i > Len(url) THEN None
    ELSE LET k == MarkerAt(url, i)
             n == IdRun(url, i + k)
         IN  IF k > 0 /\ n >= MinIdLen THEN SubSeq(url, i + k, i + k + n - 1)
             ELSE IdMatchFrom(url, i + 1)

\* a transform that knows the /file/d/ form only
toDriveDownloadURL_FileOnly(url) ==
    LET hits == {i \in 1..Len(url) :
                    OccursAt(url, FileD, i) /\ IdRun(url, i + Len(FileD)) >= MinIdLen}
    IN  IF hits = {} THEN url
        ELSE LET i == CHOOSE h \in hits : \A g \in hits : h <= g
             IN  DriveDownload \o SubSeq(url, i + Len(FileD),
                                         i + Len(FileD) + IdRun(url, i + Len(FileD)) - 1)

toDriveDownloadURL(url) ==
    LET idMatch == IdMatchFrom(url, 1)
    IN  IF idMatch # None THEN DriveDownload \o idMatch ELSE url

\* the URLs the transform is applied to: those of the dashboard's own tests,
\* and the combinations of a head, a marker, an id and a tail
UrlHeads == {<<>>, <<"u", "/">>, <<"a", "?", "u">>}
UrlMarkers == {<<>>, FileD, IdEq, <<"f", "i", "l", "e", "/">>, <<"d", "=">>}
UrlIds == {<<"A", "B", "C", "1", "2", "3", "4", "5", "6">>, <<"A", "B", "C", "1", "2", "3", "4", "5", "6", "7">>, <<"a", "_", "b", "-", "C", "1", "2", "3", "4", "5", "Z">>,
           <<"A", "B", "C", "1", "2", ".", "4", "5", "6", "7">>}
UrlTails == {<<>>, <<"/", "v", "i", "e", "w">>, <<"&", "i", "d", "=", "Z", "Y", "X", "9", "8", "7", "6", "5", "4", "3">>}
UrlInputs ==
    {<<"h", "t", "t", "p", "s", ":", "/", "/", "d", "r", "i", "v", "e", ".", "g", "o", "o", "g", "l", "e", ".", "c", "o", "m", "/", "f", "i", "l", "e", "/", "d", "/", "A", "B", "C", "1", "2", "3", "4", "5", "6", "7", "8", "9", "/", "v", "i", "e", "w">>,
     <<"h", "t", "t", "p", "s", ":", "/", "/", "d", "r", "i", "v", "e", ".", "g", "o", "o", "g", "l", "e", ".", "c", "o", "m", "/", "o", "p", "e", "n", "?", "i", "d", "=", "Z", "Y", "X", "9", "8", "7", "6", "5", "4", "3", "2", "1">>,
     <<"h", "t", "t", "p", "s", ":", "/", "/", "e", "x", "a", "m", "p", "l", "e", ".", "c", "o", "m", "/", "o", "t", "h", "e", "r">>}
      \cup {h \o m \o i \o t : h \in UrlHeads, m \in UrlMarkers, i \in UrlIds, t \in UrlTails}

UrlInit ==
    /\ MainIdle
    /\ RaceInit
    /\ ScanIdle
    /\ MatchIdle
    /\ LiveIdle
    /\ urlIn \in UrlInputs
    /\ urlOut = None

\* the call returns
ApplyToDriveDownloadURL ==
    /\ urlOut = None
    /\ urlOut' = toDriveDownloadURL(urlIn)
    /\ UNCHANGED <<urlIn, mainVars, raceVars, scanVars, matchVars, liveVars>>

UrlNext == ApplyToDriveDownloadURL

UrlSpec == UrlInit /\ [][UrlNext]_vars

(* =============================== claims =============================== *)
\* the run records of the dataset that belong to the test day of a folder
RunsOfDay(name) == {i \in 1..Len(runs) : runs[i].testDayId = LocalDash \o name}

DistinctIds(coll) ==
    \A i, j \in 1..Len(coll) : i # j => coll[i].id # coll[j].id

\* the payloads an import of the current scan result can hand to the merge:
\* a test day's data under the bookkeeping as it is or as a new session has
\* it, and the setups of any selection of the detected setup files
RECURSIVE SetupsFromFiles(_)
SetupsFromFiles(files) ==
    IF files = <<>> THEN <<>>
    ELSE IF Head(files).text.valid
         THEN <<SetupFromFile(Head(files), Today)>> \o SetupsFromFiles(Tail(files))
         ELSE SetupsFromFiles(Tail(files))

SetupBatches ==
    {[EmptyData EXCEPT !.setups =
          SetupsFromFiles(SelectSeq(globalSetupFiles, LAMBDA f : f \in X))] :
       X \in SUBSET {globalSetupFiles[i] : i \in 1..Len(globalSetupFiles)}}

DayBatches ==
    {ImportedData(testDayFolders[i], ref, Today) :
       i \in 1..Len(testDayFolders), ref \in {importedRunPathsRef, {}}}

CandidateBatches == SetupBatches \cup DayBatches

\* C1: once a folder has been imported (the status line reports the import
\* of that folder), the dataset holds exactly one run of that test day per
\* telemetry file of the folder, so a re-import after k files were added has
\* gained exactly k runs, and the runs imported before are each still there
\* once.
C1_ReimportAddsOnlyNewFiles ==
    \A i \in 1..Len(testDayFolders) :
        (/\ statusMessage.text = ImportedDayMsg(<<>>, 0).text
         /\ statusMessage.name = testDayFolders[i].name)
        => /\ Cardinality(RunsOfDay(testDayFolders[i].name))
                 = Len(testDayFolders[i].xrkFiles)
           /\ \A j, k \in RunsOfDay(testDayFolders[i].name) :
                  j # k => runs[j].id # runs[k].id

\* C2: applying the merge with the same batch a second time changes none of
\* the four collections: merge(merge(existing, batch), batch) =
\* merge(existing, batch), for the dataset as it is and every batch an
\* import can hand over.
C2_MergeIdempotent ==
    \A b \in CandidateBatches :
        Merge(Merge(Dataset, b), b) = Merge(Dataset, b)

\* a batch of which the dataset holds some runs already and lacks others
C2_Witness ==
    \E b \in DayBatches :
        /\ \E k \in 1..Len(b.runs) : b.runs[k].id \in IdsOf(runs)
        /\ \E k \in 1..Len(b.runs) : b.runs[k].id \notin IdsOf(runs)
        /\ Merge(Dataset, b) # Dataset

\* C3: no collection holds two records with the same id.
C3_NoDuplicateIds ==
    /\ DistinctIds(days)
    /\ DistinctIds(runs)
    /\ DistinctIds(setups)
    /\ DistinctIds(tires)

\* C4: the key of a run is a function of its file alone: a run the next
\* import of a folder emits and a run of that test day already in the
\* dataset have the same key exactly when they come from the same file
\* (the file a run comes from is named in its notes).
C4_RunKeyFromPathAlone ==
    \A i \in 1..Len(testDayFolders) :
        LET newRuns == NewRuns(testDayFolders[i], importedRunPathsRef, Today)
        IN  \A k \in 1..Len(newRuns) :
              \A j \in RunsOfDay(testDayFolders[i].name) :
                  (runs[j].id = newRuns[k].id) <=> (runs[j].notes = newRuns[k].notes)

\* C5: when a setup file whose key an edited setup of the dataset carries is
\* imported (again), the merge leaves the edited setup as it is and adds no
\* further setup with that key.
C5_EditedSetupSurvivesReimport ==
    \A b \in SetupBatches :
        \A i \in 1..Len(setups) :
            (/\ setups[i].name \in EditedNames
             /\ \E k \in 1..Len(b.setups) : b.setups[k].id = setups[i].id)
            => LET merged == Merge(Dataset, b).setups
               IN  /\ merged[i] = setups[i]
                   /\ Cardinality({j \in 1..Len(merged) : merged[j].id = setups[i].id})
                        = Cardinality({j \in 1..Len(setups) : setups[j].id = setups[i].id})

\* an edited setup, and a detected setup file with its key and another name
\* that the next import will read
C5_Witness ==
    \E i \in 1..Len(setups), n \in 1..Len(globalSetupFiles) :
        /\ setups[i].name \in EditedNames
        /\ globalSetupFiles[n].text.valid
        /\ SetupFromFile(globalSetupFiles[n], Today).id = setups[i].id
        /\ SetupFromFile(globalSetupFiles[n], Today).name # setups[i].name
        /\ FileName(globalSetupFiles[n]) \notin importedSetupNamesRef

\* C6: when the test day of a batch has the key of a test day of the
\* dataset, the merge adds no test day and changes none.
C6_ExistingDayWins ==
    \A b \in DayBatches :
        (\E i \in 1..Len(days) : days[i].id = b.testDays[1].id)
        => MergeDays(days, b.testDays) = days

\* a batch whose test day is in the dataset with another run count
C6_Witness ==
    \E b \in DayBatches : \E i \in 1..Len(days) :
        /\ days[i].id = b.testDays[1].id
        /\ days[i] # b.testDays[1]

\* the keys of a payload, in order
BatchKeys(b) ==
    [testDays |-> [i \in 1..Len(b.testDays) |-> b.testDays[i].id],
     runs |-> [i \in 1..Len(b.runs) |-> b.runs[i].id]]

\* C7: the batch of an import depends on the scanned files only: the import
\* of a folder yields the keys, in the order, that it yields when nothing
\* was imported before.
C7_BatchDependsOnFilesOnly ==
    \A i \in 1..Len(testDayFolders) :
        BatchKeys(ImportedData(testDayFolders[i], importedRunPathsRef, Today))
          = BatchKeys(ImportedData(testDayFolders[i], {}, Today))

\* importGlobalSetups run from its start to its end without interruption
RECURSIVE RunGlobalSetups(_, _)
RunGlobalSetups(task, names) ==
    IF task.i > Len(task.files) THEN task
    ELSE LET step == ReadSetupFile(task, names, Today)
         IN  RunGlobalSetups(step.task, step.names)

GlobalSetupsResult ==
    RunGlobalSetups([files |-> globalSetupFiles,
                     i |-> NextToRead(globalSetupFiles, 1, importedSetupNamesRef),
                     importedSetups |-> <<>>, warned |-> <<>>],
                    importedSetupNamesRef)

InvalidCount(files) == Len(SelectSeq(files, LAMBDA f : ~f.text.valid))

\* C8: importing the n detected setup files of which m hold invalid JSON
\* yields n - m setup records and m skipped-file diagnostics.
C8_PartialFailureCounts ==
    /\ Len(GlobalSetupsResult.importedSetups)
         = Len(globalSetupFiles) - InvalidCount(globalSetupFiles)
    /\ Len(GlobalSetupsResult.warned) = InvalidCount(globalSetupFiles)

\* C9: after a failed scan the error is set and isScanning is false; after a
\* successful scan the error is unset (also when an earlier scan failed) and
\* the count of test days is the count found, zero included.
C9_ScanOutcomesDistinct ==
    /\ statusMessage = ScanFailedMsg
         => syncStatus.error # None /\ ~syncStatus.isScanning
    /\ statusMessage.text = ScanOkMsg(0, 0).text
         => /\ syncStatus.error = None
            /\ ~syncStatus.isScanning
            /\ syncStatus.totalTestDays = statusMessage.n
            /\ syncStatus.totalTestDays = Len(testDayFolders)

\* a scan has failed after a scan that succeeded and found no test day
C9_Witness ==
    /\ statusMessage = ScanFailedMsg
    /\ syncStatus.error # None
    /\ syncStatus.isConnected
    /\ syncStatus.totalTestDays = 0
    /\ syncStatus.lastScanTime # None

\* a new session that scans the disk in order first and imports all, then
\* scans it in order second and imports all
TwoScans(first, second) ==
    LET s1 == ImportAllFrom(ScanFolders(Enumerate(disk, first)), 1, {}, Dataset, Today)
    IN  ImportAllFrom(ScanFolders(Enumerate(disk, second)), 1, s1.imported, s1.ds, Today)

\* the keyed records: each run's key with the file it refers to
KeyedRuns(ds) == {<<ds.runs[i].id, ds.runs[i].notes>> : i \in 1..Len(ds.runs)}

\* C10: merging the batches of two scans of the files on disk that differ in
\* enumeration order only gives the same keyed records whichever scan comes
\* first.
C10_OrderConvergent ==
    KeyedRuns(TwoScans("forward", "reverse").ds)
      = KeyedRuns(TwoScans("reverse", "forward").ds)

\* the marker files on disk of a folder without telemetry: a testday.json
\* directly under a directory that createTestDayOnDisk made or whose name
\* matches the test-day pattern, no directory above it matching, and no
\* .xrk file attributed to that directory
EmptyDayMarkers ==
    {f \in disk :
        /\ Len(f.path) >= 2
        /\ ToLower(FileName(f)) = TestDayJson
        /\ \/ MatchTestDay(f.path[Len(f.path) - 1]).ok
           \/ \E d \in NewDayDates \ {<<>>}, v \in NewDayVenues \ {<<>>} :
                  f.path = TestDayJsonPath(d, v)
        /\ \A i \in 1..(Len(f.path) - 2) : ~MatchTestDay(f.path[i]).ok
        /\ \A g \in disk : IsXrk(g) => TestDayFolderOf(g) # f.path[Len(f.path) - 1]}

\* C11: a scan of the files on disk (in either enumeration order) lists every
\* folder that holds the marker testday.json and no .xrk file, a folder made
\* by createTestDayOnDisk included, as a test day with an empty telemetry
\* list, and importing that folder puts its test day into the dataset (with
\* run count 0 when it is new) and adds no run.
C11_EmptyDayRecognised ==
    \A order \in EnumOrders : \A f \in EmptyDayMarkers :
        LET folders == ScanFolders(Enumerate(disk, order))
            name == f.path[Len(f.path) - 1]
        IN  \E k \in 1..Len(folders) :
              /\ folders[k].name = name
              /\ folders[k].xrkFiles = <<>>
              /\ LET merged == Merge(Dataset,
                                     ImportedData(folders[k], importedRunPathsRef, Today))
                 IN  /\ merged.runs = runs
                     /\ \E d \in 1..Len(merged.days) :
                            /\ merged.days[d].id = LocalDash \o name
                            /\ d > Len(days) => merged.days[d].runs = 0

\* the folder createTestDayOnDisk made was scanned and imported: it is
\* listed without telemetry and its test day is in the dataset with no run
C11_Witness ==
    /\ EmptyDayMarkers # {}
    /\ \E k \in 1..Len(testDayFolders) :
          /\ testDayFolders[k].xrkFiles = <<>>
          /\ \E f \in EmptyDayMarkers : f.path[Len(f.path) - 1] = testDayFolders[k].name
          /\ \E d \in 1..Len(days) :
                /\ days[d].id = LocalDash \o testDayFolders[k].name
                /\ days[d].runs = 0
          /\ RunsOfDay(testDayFolders[k].name) = {}

\* the values a reader of the two collections sees are the same: the records
\* agree on every field, a field that is missing reading as undefined
SameValues(a, b) ==
    /\ Len(a) = Len(b)
    /\ \A i \in 1..Len(a) :
           \A key \in DOMAIN a[i] \cup DOMAIN b[i] :
               Field(a[i], key) = Field(b[i], key)

InitialData == [days |-> initialDays, runs |-> initialRuns,
                setups |-> initialSetups, tires |-> initialTires]

\* C12: a reload of the page restores each of the four collections as it is
\* now; when the stored item of a collection is missing or cannot be parsed,
\* the reload gives the built-in initial data of that collection.
C12_ReloadRestores ==
    \A k \in StorageKeys :
        IF storage[k].present /\ storage[k].valid
        THEN SameValues(Restored(storage)[k], Dataset[k])
        ELSE Restored(storage)[k] = InitialData[k]

\* a setup file of a test-day folder: a valid JSON file named
\* setup-<name>.json that the scan attributes to a test day
IsDaySetupFile(f) ==
    /\ TestDayFolderOf(f) # <<>>
    /\ Len(FileName(f)) > Len(SetupDash) + Len(DotJson)
    /\ SubSeq(FileName(f), 1, Len(SetupDash)) = SetupDash
    /\ EndsWith(ToLower(FileName(f)), DotJson)
    /\ f.text.valid

\* C13: once the selected folder was scanned and a test day of it imported
\* (by IMPORT ALL or its own button: the status line reports the import of
\* that test day), every valid setup-<name>.json of that test-day folder is
\* a setup of the dataset.
C13_DaySetupsImported ==
    \A k \in 1..Len(testDayFolders) :
        (/\ syncStatus.error = None
         /\ statusMessage.text = ImportedDayMsg(<<>>, 0).text
         /\ statusMessage.name = testDayFolders[k].name)
        => \A i \in 1..Len(inputFiles) :
              (/\ IsDaySetupFile(inputFiles[i])
               /\ TestDayFolderOf(inputFiles[i]) = testDayFolders[k].name)
              => \E j \in 1..Len(setups) :
                    setups[j].id = SetupFromFile(inputFiles[i], Today).id

\* C16: every run that the next import of a scanned folder hands to the
\* dashboard carries as runNumber the 1-based position, in the folder's list
\* of telemetry files, of the file the run was made from (the file is named
\* in the run's notes).
C16_RunNumberIsFilePosition ==
    \A i \in 1..Len(testDayFolders) :
        LET newRuns == NewRuns(testDayFolders[i], importedRunPathsRef, Today)
        IN  \A k \in 1..Len(newRuns) :
              \E p \in 1..Len(testDayFolders[i].xrkFiles) :
                  /\ newRuns[k].notes = ImportedFrom \o testDayFolders[i].xrkFiles[p].name
                  /\ newRuns[k].runNumber = p

(* ------------------- scanForTestDayFolders on its own ------------------ *)
Villa == <<"V", "i", "l", "l", "a">>
NotesTxt == <<"n", "o", "t", "e", "s", ".", "t", "x", "t">>

\* the files a selected folder can hold: telemetry, a marker and other
\* files, directly in a test-day folder, nested below it, below two
\* test-day folders, below none, and with a test-day name of their own
ScanPool == {
    MkFile(<<RootDir, Day1, <<"r", "1", ".", "x", "r", "k">>>>, 10, BadText),
    MkFile(<<RootDir, Day1, DataDump, <<"r", "2", ".", "X", "R", "K">>>>, 20, BadText),
    MkFile(<<RootDir, Day1, TestDayJson>>, 1, BadText),
    MkFile(<<RootDir, Day1, NotesTxt>>, 1, BadText),
    MkFile(<<RootDir, Day2, NotesTxt>>, 1, BadText),
    MkFile(<<RootDir, Day2, Day1, <<"r", "3", ".", "x", "r", "k">>>>, 30, BadText),
    MkFile(<<RootDir, Villa, Day2, DataDump, <<"r", "4", ".", "x", "r", "k">>>>, 40, BadText),
    MkFile(<<RootDir, Villa, <<"r", "5", ".", "x", "r", "k">>>>, 50, BadText),
    MkFile(<<RootDir, <<"2", "0", "2", "5", "-", "4", "-", "3", " ", "-", " ", "C", ".", "x", "r", "k">>>>, 60, BadText),
    MkFile(<<<<"r", "6", ".", "x", "r", "k">>>>, 70, BadText),
    MkFile(<<Day2, TestDayJson>>, 1, BadText),
    MkFile(<<RootDir, SetupsDir, <<"a", ".", "j", "s", "o", "n">>>>, 1, BadText),
    MkFile(<<RootDir, Day1, SetupsLower, <<"b", ".", "J", "S", "O", "N">>>>, 1, BadText),
    MkFile(<<<<"S", "E", "T", "U", "P", "S">>, <<"c", ".", "j", "s", "o", "n">>>>, 1, BadText),
    MkFile(<<RootDir, SetupsDir, NotesTxt>>, 1, BadText),
    MkFile(<<RootDir, <<"m", "y", "s", "e", "t", "u", "p", "s">>, <<"e", ".", "j", "s", "o", "n">>>>, 1, BadText),
    MkFile(<<RootDir, Villa, <<"s", "e", "t", "u", "p", "s", ".", "j", "s", "o", "n">>>>, 1, BadText),
    MkFile(<<RootDir, Day1, <<"s", "e", "t", "u", "p", "-", "q", ".", "j", "s", "o", "n">>>>, 1, BadText) }

\* the FileList of a selection: one or two files of the pool
ScanInputs ==
    {<<f>> : f \in ScanPool}
        \cup {<<f, g>> : <<f, g>> \in {pr \in ScanPool \X ScanPool : pr[1] # pr[2]}}

ScanOnlyInit ==
    /\ MainIdle
    /\ UrlIdle
    /\ RaceInit
    /\ MatchIdle
    /\ LiveIdle
    /\ scanIn \in ScanInputs
    /\ scanOut = <<>>
    /\ scanSetups = <<>>

\* the scan of the file list
ApplyScan ==
    /\ scanOut = <<>>
    /\ scanOut' = <<ScanFolders(scanIn)>>
    /\ scanSetups' = DetectGlobalSetups(scanIn)
    /\ UNCHANGED <<scanIn, mainVars, urlVars, raceVars, matchVars, liveVars>>

ScanNext == ApplyScan

ScanSpec == ScanOnlyInit /\ [][ScanNext]_vars

(* ----------------------- the test-day pattern alone -------------------- *)
\* path segments: a lead, a date, a separator and a venue put together
SegLeads == {<<>>, <<" ">>}
SegDates == {<<"2", "0", "2", "5", "-", "4", "-", "1", "1">>, <<"2", "0", "2", "5", "-", "0", "4", "-", "1">>, <<"2", "2", "5", "-", "4", "-", "1", "1">>, <<"2", "0", "2", "5", "-", "4", "-", "1", "1", "1">>, <<"2", "0", "2", "5", "-", "4">>}
SegSeps == {<<>>, <<" ">>, <<"-">>, <<"_">>, <<" ", "-", " ">>, <<" ", "_">>, <<"-", "-">>}
SegVenues == {<<>>, <<"V", "i", "l", "l", "a">>, <<"V", " ", "a">>, <<"V", "i", "l", "l", "a", " ">>}
Segments ==
    {l \o d \o p \o v : l \in SegLeads, d \in SegDates, p \in SegSeps, v \in SegVenues}

MatchOnlyInit ==
    /\ MainIdle
    /\ UrlIdle
    /\ RaceInit
    /\ ScanIdle
    /\ LiveIdle
    /\ matchIn \in Segments
    /\ matchOut = <<>>

\* segment.match(...)
ApplyMatch ==
    /\ matchOut = <<>>
    /\ matchOut' = <<MatchTestDay(matchIn)>>
    /\ UNCHANGED <<matchIn, mainVars, urlVars, raceVars, scanVars, liveVars>>

MatchNext == ApplyMatch

MatchSpec == MatchOnlyInit /\ [][MatchNext]_vars

(* ----------------------------- RaceTracker ----------------------------- *)
MaxLaps == 2
MaxStints == 1
MaxClock == 248

\* elapsed seconds a lap can take, and the values typed into a lap's row
LapTimes == {60, 62}
TimeInputs == {<<>>, <<"6", "1">>, <<"x">>}
ConesInputs == {<<>>, <<"2">>, <<"x">>}

\* `${stintName}-${Date.now()}`: the clock has moved on between two stints
StintIds == <<"Stint 1-t1", "Stint 2-t2", "Stint 3-t3">>

RECURSIVE SumCones(_)
SumCones(ls) ==
    IF ls = <<>> THEN 0
    ELSE (IF Head(ls).cones = None THEN 0 ELSE Head(ls).cones[2]) + SumCones(Tail(ls))

RECURSIVE ValidTimes(_)
ValidTimes(ls) ==
    IF ls = <<>> THEN <<>>
    ELSE (IF Head(ls).timeSec = None THEN <<>> ELSE <<Head(ls).timeSec[2]>>)
             \o ValidTimes(Tail(ls))

RECURSIVE SumSeq(_)
SumSeq(ts) == IF ts = <<>> THEN 0 ELSE Head(ts) + SumSeq(Tail(ts))

RECURSIVE Gcd(_, _)
Gcd(a, b) == IF b = 0 THEN a ELSE Gcd(b, a % b)

\* a / b as a fraction in lowest terms (b > 0)
Quotient(a, b) == LET g == Gcd(a, b) IN <<"number", a \div g, b \div g>>

MinOf(ts) == CHOOSE t \in {ts[i] : i \in 1..Len(ts)} : \A i \in 1..Len(ts) : t <= ts[i]

\* the totals memo over the laps on display
Totals(displayLaps) ==
    LET validTimes == ValidTimes(displayLaps)
    IN  [totalCones |-> SumCones(displayLaps),
         numLaps |-> Len(displayLaps),
         avgLap |-> IF Len(validTimes) > 0
                    THEN Quotient(SumSeq(validTimes), Len(validTimes)) ELSE None,
         bestLap |-> IF Len(validTimes) > 0 THEN Num(MinOf(validTimes)) ELSE None]

\* Start Lap: the interval callback it creates sees running and lapStartTs
\* of the render in which the button was clicked
startLap ==
    /\ selectedStintId = "current"
    /\ ~running
    /\ lapStartTs' = Num(clock)
    /\ running' = TRUE
    /\ timerRef' = <<[running |-> running, lapStartTs |-> lapStartTs]>>
    /\ UNCHANGED <<laps, nextLapNum, stints, selectedStintId, clock, liveLapSec,
                   mainVars, urlVars, scanVars, matchVars, liveVars>>

\* the value the interval callback hands to setLiveLapSec at the reading t
\* of the clock
LiveLap(closure, t) ==
    IF ~closure.running /\ closure.lapStartTs = None THEN 0
    ELSE LET base == IF closure.lapStartTs # None THEN closure.lapStartTs[2] ELSE t
         IN  t - base

\* the interval timer fires, dt seconds after the last reading of the clock
TimerFires(dt) ==
    /\ timerRef # <<>>
    /\ clock + dt <= MaxClock
    /\ clock' = clock + dt
    /\ liveLapSec' = LiveLap(timerRef[1], clock + dt)
    /\ UNCHANGED <<laps, nextLapNum, stints, selectedStintId, running, lapStartTs,
                   timerRef, mainVars, urlVars, scanVars, matchVars, liveVars>>

\* Mark Lap, timeSec seconds after the lap began
markLap(timeSec) ==
    /\ selectedStintId = "current"
    /\ running
    /\ lapStartTs # None
    /\ Len(laps) < MaxLaps
    /\ lapStartTs[2] + timeSec >= clock
    /\ lapStartTs[2] + timeSec <= MaxClock
    /\ clock' = lapStartTs[2] + timeSec
    /\ lapStartTs' = Num(lapStartTs[2] + timeSec)
    /\ liveLapSec' = 0
    /\ laps' = Append(laps, [lapNumber |-> nextLapNum, timeSec |-> Num(timeSec),
                             cones |-> None])
    /\ nextLapNum' = nextLapNum + 1
    /\ UNCHANGED <<running, stints, selectedStintId, timerRef, mainVars, urlVars,
                   scanVars, matchVars, liveVars>>

\* End Stint / Save Stint: the stint takes the laps and the totals of this
\* render; the lap that markLap queues while a lap is running is replaced
\* by setLaps([]).  While a lap is running the timer is cleared, and of
\* markLap's updates setLiveLapSec(0) stays.
endStintAndAppend ==
    /\ selectedStintId = "current"
    /\ Len(stints) < MaxStints
    /\ LET totals == Totals(laps)
           stint == [id |-> StintIds[Len(stints) + 1],
                     laps |-> laps,
                     totals |-> [numLaps |-> totals.numLaps,
                                 totalCones |-> totals.totalCones,
                                 avgLap |-> totals.avgLap,
                                 bestLap |-> totals.bestLap]]
       IN  stints' = Append(stints, stint)
    /\ running' = FALSE
    /\ lapStartTs' = IF running THEN None ELSE lapStartTs
    /\ timerRef' = IF running THEN <<>> ELSE timerRef
    /\ liveLapSec' = IF running /\ lapStartTs # None THEN 0 ELSE liveLapSec
    /\ laps' = <<>>
    /\ nextLapNum' = 1
    /\ UNCHANGED <<selectedStintId, clock, mainVars, urlVars, scanVars, matchVars,
                   liveVars>>

\* View Stint
SelectStint(id) ==
    /\ id \in {"current"} \cup {stints[i].id : i \in 1..Len(stints)}
    /\ id # selectedStintId
    /\ selectedStintId' = id
    /\ UNCHANGED <<laps, nextLapNum, stints, running, lapTimerVars, mainVars, urlVars,
                   scanVars, matchVars, liveVars>>

Patched(ls, lapNumber, field, value) ==
    [i \in 1..Len(ls) |->
        IF ls[i].lapNumber = lapNumber THEN [ls[i] EXCEPT ![field] = value] ELSE ls[i]]

updateLap(lapNumber, field, value) ==
    IF selectedStintId = "current"
    THEN /\ laps' = Patched(laps, lapNumber, field, value)
         /\ UNCHANGED stints
    ELSE /\ stints' = [i \in 1..Len(stints) |->
                          IF stints[i].id = selectedStintId
                          THEN [stints[i] EXCEPT
                                   !.laps = Patched(stints[i].laps, lapNumber, field, value)]
                          ELSE stints[i]]
         /\ UNCHANGED laps

displayLaps ==
    IF selectedStintId = "current" THEN laps
    ELSE LET i == CHOOSE j \in 1..Len(stints) : stints[j].id = selectedStintId
         IN  stints[i].laps

\* the Time field of a lap's row, an input for a completed stint only
EditLapTime(lapNumber, text) ==
    /\ selectedStintId # "current"
    /\ \E i \in 1..Len(displayLaps) : displayLaps[i].lapNumber = lapNumber
    /\ LET val == ParseInt(text)
       IN  updateLap(lapNumber, "timeSec", IF val # NaN THEN val ELSE None)
    /\ UNCHANGED <<nextLapNum, selectedStintId, running, lapTimerVars, mainVars, urlVars,
                   scanVars, matchVars, liveVars>>

\* the Cones field of a lap's row: an empty text clears the value, a text
\* that is no number changes nothing
EditLapCones(lapNumber, text) ==
    /\ \E i \in 1..Len(displayLaps) : displayLaps[i].lapNumber = lapNumber
    /\ IF text = <<>> THEN updateLap(lapNumber, "cones", None)
       ELSE LET num == ParseInt(text)
            IN  IF num # NaN THEN updateLap(lapNumber, "cones", num)
                ELSE UNCHANGED <<laps, stints>>
    /\ UNCHANGED <<nextLapNum, selectedStintId, running, lapTimerVars, mainVars, urlVars,
                   scanVars, matchVars, liveVars>>

RaceNext ==
    \/ startLap
    \/ \E timeSec \in LapTimes : markLap(timeSec)
    \/ endStintAndAppend
    \/ \E id \in {"current"} \cup {StintIds[i] : i \in 1..MaxStints} : SelectStint(id)
    \/ \E lapNumber \in 1..MaxLaps, text \in TimeInputs : EditLapTime(lapNumber, text)
    \/ \E lapNumber \in 1..MaxLaps, text \in ConesInputs : EditLapCones(lapNumber, text)

RaceTrackerInit ==
    /\ MainIdle
    /\ UrlIdle
    /\ RaceInit
    /\ ScanIdle
    /\ MatchIdle
    /\ LiveIdle

RaceSpec == RaceTrackerInit /\ [][RaceNext]_vars

\* the interval of the lap timer, in seconds of the model's clock
TimerSteps == {20}

\* the lap timer: the buttons of the current stint and the interval timer
LapTimerNext ==
    \/ startLap
    \/ \E timeSec \in LapTimes : markLap(timeSec)
    \/ endStintAndAppend
    \/ \E dt \in TimerSteps : TimerFires(dt)

LapTimerSpec == RaceTrackerInit /\ [][LapTimerNext]_vars

\* C15: a completed stint's stored totals are the totals of its laps, also
\* after a lap of the stint was edited.
C15_StintTotalsFollowLaps ==
    \A i \in 1..Len(stints) :
        LET now == Totals(stints[i].laps)
        IN  /\ stints[i].totals.numLaps = now.numLaps
            /\ stints[i].totals.totalCones = now.totalCones
            /\ stints[i].totals.avgLap = now.avgLap
            /\ stints[i].totals.bestLap = now.bestLap

\* the directory segments of a file's path that match the pattern and have
\* no matching segment to their left: none or one
LeftmostDays(f) ==
    {f.path[i] : i \in {j \in 1..(Len(f.path) - 1) :
                            /\ MatchTestDay(f.path[j]).ok
                            /\ \A h \in 1..(j - 1) : ~MatchTestDay(f.path[h]).ok}}

IsMarkerOrXrk(f) == IsXrk(f) \/ ToLower(FileName(f)) = TestDayJson

\* C17: every folder of the scan result has a name that matches the pattern
\* and, among the files grouped under it, an .xrk file or testday.json.
C17_OnlyTestDaysWithData ==
    scanOut # <<>> =>
        \A k \in 1..Len(scanOut[1]) :
            /\ MatchTestDay(scanOut[1][k].name).ok
            /\ \E i \in 1..Len(scanIn) :
                   /\ LeftmostDays(scanIn[i]) = {scanOut[1][k].name}
                   /\ IsMarkerOrXrk(scanIn[i])

\* a scan of a matching folder that holds neither next to one that holds
\* telemetry: the result has the second only
C17_Witness ==
    /\ scanOut # <<>>
    /\ Len(scanOut[1]) = 1
    /\ \E i \in 1..Len(scanIn) :
           /\ LeftmostDays(scanIn[i]) # {}
           /\ LeftmostDays(scanIn[i]) # {scanOut[1][1].name}
           /\ ~IsMarkerOrXrk(scanIn[i])

\* the places of the scan result that hold the file
PlacesOf(f) ==
    {<<k, j>> \in (1..Len(scanOut[1])) \X (1..Len(scanIn)) :
        j <= Len(scanOut[1][k].xrkFiles) /\ scanOut[1][k].xrkFiles[j].path = f.path}

\* C18: a telemetry file is listed once, under the folder named by the
\* leftmost directory segment of its path that matches the pattern, however
\* deep below that segment it lies, and nowhere when no directory segment of
\* its path matches.
C18_LeftmostSegmentOwnsFile ==
    scanOut # <<>> =>
        \A i \in 1..Len(scanIn) :
            IsXrk(scanIn[i]) =>
                /\ \A pl \in PlacesOf(scanIn[i]) :
                       LeftmostDays(scanIn[i]) = {scanOut[1][pl[1]].name}
                /\ Cardinality(PlacesOf(scanIn[i]))
                       = Cardinality(LeftmostDays(scanIn[i]))

\* a scan of a file below two matching segments and a file below none
C18_Witness ==
    /\ scanOut # <<>>
    /\ \E i \in 1..Len(scanIn) :
           /\ IsXrk(scanIn[i])
           /\ Cardinality({j \in 1..(Len(scanIn[i].path) - 1) :
                               MatchTestDay(scanIn[i].path[j]).ok}) = 2
           /\ PlacesOf(scanIn[i]) # {}
    /\ \E i \in 1..Len(scanIn) :
           /\ IsXrk(scanIn[i])
           /\ LeftmostDays(scanIn[i]) = {}
           /\ Len(scanIn[i].path) >= 2

\* C20: once a folder has been imported (the status line reports the import
\* of that folder), the test day record of the folder carries the date and
\* the venue the pattern extracts from the folder's name, and every run of
\* that test day carries that venue as its track.
C20_ImportCarriesPatternParts ==
    \A i \in 1..Len(testDayFolders) :
        (/\ statusMessage.text = ImportedDayMsg(<<>>, 0).text
         /\ statusMessage.name = testDayFolders[i].name)
        => LET m == MatchTestDay(testDayFolders[i].name)
           IN  /\ \A d \in 1..Len(days) :
                      days[d].id = LocalDash \o testDayFolders[i].name
                          => days[d].date = m.date /\ days[d].track = m.venue
               /\ \A r \in RunsOfDay(testDayFolders[i].name) : runs[r].track = m.venue

\* one of the file's directory segments is 'Setups' in any case, and the
\* file's name ends in '.json' in any case
InSetupsDirectory(f) ==
    /\ \E i \in 1..(Len(f.path) - 1) : ToLower(f.path[i]) = SetupsLower
    /\ EndsWith(ToLower(f.path[Len(f.path)]), DotJson)

\* C21: the global setup files a scan detects are exactly the files of the
\* list with a directory segment named Setups and a name ending in .json,
\* whether or not they lie below a test-day folder.
C21_GlobalSetupCandidates ==
    scanOut # <<>> =>
        /\ \A i \in 1..Len(scanIn) :
               InSetupsDirectory(scanIn[i])
                   <=> \E j \in 1..Len(scanSetups) : scanSetups[j] = scanIn[i]
        /\ Len(scanSetups) <= Len(scanIn)

\* a scan that detected a setup file lying below a test-day folder, next to
\* a .json file that is no candidate
C21_Witness ==
    /\ scanOut # <<>>
    /\ \E j \in 1..Len(scanSetups) : LeftmostDays(scanSetups[j]) # {}
    /\ \E i \in 1..Len(scanIn) :
           /\ EndsWith(ToLower(FileName(scanIn[i])), DotJson)
           /\ \A j \in 1..Len(scanSetups) : scanSetups[j] # scanIn[i]

\* C22: after an import of the global setups, the keys of the setups made
\* from the detected setup files tell the files apart by name: two files
\* yield the same key exactly when they have the same file name.
C22_SetupKeyFromFileName ==
    statusMessage.text = ImportedSetupsMsg(0).text =>
        \A i, j \in 1..Len(globalSetupFiles) :
            (globalSetupFiles[i].text.valid /\ globalSetupFiles[j].text.valid)
                => ((SetupFromFile(globalSetupFiles[i], Today).id
                        = SetupFromFile(globalSetupFiles[j], Today).id)
                    <=> (FileName(globalSetupFiles[i]) = FileName(globalSetupFiles[j])))

\* the dataset after the payloads are merged one at a time, in order
RECURSIVE MergeInOrder(_, _)
MergeInOrder(ds, batches) ==
    IF batches = <<>> THEN ds
    ELSE MergeInOrder(Merge(ds, Head(batches)), Tail(batches))

CountId(coll, id) == Cardinality({i \in 1..Len(coll) : coll[i].id = id})

\* every record of the payloads is in the collection, once if it was not
\* there before and as often as before otherwise
NoneLostOrDuplicated(before, after, batches, key) ==
    \A b \in 1..Len(batches) :
        \A k \in 1..Len(batches[b][PayloadKey(key)]) :
            LET id == batches[b][PayloadKey(key)][k].id
            IN  CountId(after, id)
                    = IF CountId(before, id) > 0 THEN CountId(before, id) ELSE 1

\* C23: a press of IMPORT ALL leaves the dataset that merging the payloads
\* of its calls one at a time, in order, yields, with no record of a payload
\* lost or duplicated.
C23_BackToBackMerges ==
    [][ImportAll =>
          LET batches == ImportAllBatches(testDayFolders, 1, importedRunPathsRef, Today)
              inOrder == MergeInOrder(Dataset, batches)
          IN  /\ days' = inOrder.days
              /\ runs' = inOrder.runs
              /\ setups' = inOrder.setups
              /\ tires' = inOrder.tires
              /\ NoneLostOrDuplicated(days, days', batches, "days")
              /\ NoneLostOrDuplicated(runs, runs', batches, "runs")]_vars

\* IMPORT ALL was pressed with two folders that each hold telemetry: the
\* dataset has the test days and the runs of both
C23_Witness ==
    /\ Len(testDayFolders) = 2
    /\ statusMessage.text = ImportedDayMsg(<<>>, 0).text
    /\ \A i \in 1..2 :
           /\ RunsOfDay(testDayFolders[i].name) # {}
           /\ \E d \in 1..Len(days) : days[d].id = LocalDash \o testDayFolders[i].name

\* a scan, of a new selection or of the one held, that dies of an error
FailedScan ==
    \/ \E order \in EnumOrders, fault \in ScanErrors : HandleFolderSelect(order, fault)
    \/ \E fault \in ScanErrors : RescanNow(fault)

\* C24: a scan that fails leaves the test-day folder list, the global setup
\* file list, the imported-path bookkeeping and the four collections as they
\* were before it started.
C24_FailedScanKeepsResults ==
    [][FailedScan =>
          /\ testDayFolders' = testDayFolders
          /\ globalSetupFiles' = globalSetupFiles
          /\ importedRunPathsRef' = importedRunPathsRef
          /\ importedSetupNamesRef' = importedSetupNamesRef
          /\ days' = days /\ runs' = runs /\ setups' = setups /\ tires' = tires]_vars

\* a scan has failed while folders and setup files of the scan before, and
\* imported paths, are held
C24_Witness ==
    /\ statusMessage = ScanFailedMsg
    /\ syncStatus.error # None
    /\ Len(testDayFolders) > 0
    /\ Len(globalSetupFiles) > 0
    /\ importedRunPathsRef # {}

\* C25: whenever live sync is enabled and a folder is selected, an interval
\* timer that rescans the folder becomes active (and then fires, by the
\* fairness of the timer), unless live sync is switched off or the component
\* leaves the screen.
C25_LiveSyncStarts ==
    (mounted /\ liveSyncEnabled /\ Len(inputFiles) > 0)
        ~> (timers # {} \/ ~liveSyncEnabled \/ ~mounted)

\* C27: at most one interval timer is active, and none once live sync is
\* switched off or the component has left the screen.
C27_OneTimerNoneWhenOff ==
    /\ Cardinality(timers) <= 1
    /\ (~liveSyncEnabled \/ ~mounted) => timers = {}

\* live sync was switched on with a folder selected, so that a timer ran,
\* and has been switched off again
C27_Witness ==
    /\ mounted
    /\ ~liveSyncEnabled
    /\ timerSeq >= 1
    /\ Len(inputFiles) > 0

\* C26: End Stint while a lap is running closes the lap in progress and
\* keeps it: the saved stint's laps are the laps recorded so far followed by
\* the final lap, and the stint's numLaps counts it.
C26_EndStintKeepsRunningLap ==
    [][(running /\ Len(stints') = Len(stints) + 1) =>
          LET stint == stints'[Len(stints')]
          IN  /\ Len(stint.laps) = Len(laps) + 1
              /\ SubSeq(stint.laps, 1, Len(laps)) = laps
              /\ stint.totals.numLaps = Len(laps) + 1]_vars

\* C30: while a lap is running, a tick of the interval timer sets the live
\* lap time to the time elapsed since the lap began (so it grows from tick
\* to tick), and Mark Lap restarts it from zero.
C30_LiveLapTimeFollowsClock ==
    [][/\ (running /\ running' /\ timerRef # <<>> /\ laps' = laps /\ clock' > clock)
           => liveLapSec' = clock' - lapStartTs[2]
       /\ (running /\ Len(laps') = Len(laps) + 1) => liveLapSec' = 0]_vars

\* the paths of the telemetry files of a folder for which an import under
\* the bookkeeping `imported` emits a run record
EmittedPaths(testDay, imported) ==
    LET todo == NotYetImported(testDay, imported)
    IN  {todo[k].path : k \in 1..Len(todo)}

\* C28: an import adds to importedRunPathsRef exactly the paths of the
\* telemetry files it emitted a run record for: every file of the imported
\* folder a run was emitted for is in the set afterwards, nothing leaves
\* the set, and nothing enters it for which no run was emitted.
C28_ImportedPathsAreEmittedRuns ==
    [][\A i \in 1..Len(testDayFolders) :
          (/\ statusMessage' # statusMessage
           /\ testDayFolders' = testDayFolders
           /\ statusMessage' =
                  ImportedDayMsg(testDayFolders[i].name,
                                 Len(NotYetImported(testDayFolders[i], importedRunPathsRef))))
          => /\ EmittedPaths(testDayFolders[i], importedRunPathsRef)
                    \subseteq importedRunPathsRef'
             /\ importedRunPathsRef \subseteq importedRunPathsRef'
             /\ importedRunPathsRef' \ importedRunPathsRef \subseteq
                    UNION {EmittedPaths(testDayFolders[j], importedRunPathsRef) :
                              j \in 1..Len(testDayFolders)}]_vars

\* C29: starting from collections with distinct ids, no step of the forms
\* of the dashboard (create test day, save run, delete run, create setup,
\* edit setup, create tire) or of an import leaves a collection with two
\* records of the same id.
C29_IdsStayDistinct ==
    [][(DistinctIds(days) /\ DistinctIds(runs) /\ DistinctIds(setups)
          /\ DistinctIds(tires))
       => (DistinctIds(days') /\ DistinctIds(runs') /\ DistinctIds(setups')
             /\ DistinctIds(tires'))]_vars

\* a 4-digit year, '-', a month of 1 or 2 digits, '-', a day of 1 or 2 digits
IsDateText(d) ==
    \E m \in 1..2, dd \in 1..2 :
        /\ Len(d) = 6 + m + dd
        /\ \A i \in 1..4 : IsDigit(d[i])
        /\ d[5] = "-"
        /\ \A i \in 6..(5 + m) : IsDigit(d[i])
        /\ d[6 + m] = "-"
        /\ \A i \in (7 + m)..Len(d) : IsDigit(d[i])

\* the text without its leading and trailing whitespace
RECURSIVE TrimSpaces(_)
TrimSpaces(v) ==
    IF v = <<>> THEN v
    ELSE IF IsSpace(Head(v)) THEN TrimSpaces(Tail(v))
    ELSE IF IsSpace(v[Len(v)]) THEN TrimSpaces(SubSeq(v, 1, Len(v) - 1))
    ELSE v

\* the ways to read a segment as whitespace, date, separators ('-' or '_',
\* with whitespace around them), venue
SegmentParts(s) ==
    {[date |-> SubSeq(s, abc[1] + 1, abc[2]), venue |-> SubSeq(s, abc[3] + 1, Len(s))] :
        abc \in {x \in (0..Len(s)) \X (0..Len(s)) \X (0..Len(s)) :
            /\ x[1] <= x[2] /\ x[2] < x[3] /\ x[3] < Len(s)
            /\ \A i \in 1..x[1] : IsSpace(s[i])
            /\ IsDateText(SubSeq(s, x[1] + 1, x[2]))
            /\ \A i \in (x[2] + 1)..x[3] : IsSpace(s[i]) \/ s[i] \in {"-", "_"}
            /\ \E i \in (x[2] + 1)..x[3] : s[i] \in {"-", "_"}}}

\* C19: a segment matches exactly when it reads as optional whitespace, a
\* date, one or more separators and a non-empty venue, and the match then
\* yields that date and that venue, trimmed.
C19_PatternRecognition ==
    matchOut # <<>> =>
        LET parts == SegmentParts(matchIn)
            m == matchOut[1]
        IN  /\ m.ok <=> parts # {}
            /\ m.ok => \E pt \in parts :
                           m.date = pt.date /\ m.venue = TrimSpaces(pt.venue)

\* the ids a URL carries: each longest run of at least MinIdLen id characters
\* that follows a 'file/d/' or an 'id='
DriveIdsIn(url) ==
    {SubSeq(url, q, q + n - 1) :
        <<q, n>> \in {<<q, n>> \in (1..Len(url)) \X (MinIdLen..Len(url)) :
            /\ q + n - 1 <= Len(url)
            /\ \A j \in q..(q + n - 1) : IsIdChar(url[j])
            /\ q + n > Len(url) \/ ~IsIdChar(url[q + n])
            /\ \/ q > Len(FileD) /\ SubSeq(url, q - Len(FileD), q - 1) = FileD
               \/ q > Len(IdEq) /\ SubSeq(url, q - Len(IdEq), q - 1) = IdEq}}

\* C14: for a URL that carries an id after 'file/d/' or 'id=' the result is
\* the direct-download URL with an id the URL carries; for a URL that
\* carries none the result is the URL itself.
C14_DriveDownloadURL ==
    urlOut # None =>
        IF DriveIdsIn(urlIn) # {}
        THEN \E id \in DriveIdsIn(urlIn) : urlOut = DriveDownload \o id
        ELSE urlOut = urlIn

\* the transform was applied to a URL with an id after 'id=' and to one
\* without an id: here, to the former
C14_Witness ==
    /\ urlOut # None
    /\ DriveIdsIn(urlIn) # {}
    /\ \A i \in 1..Len(urlIn) : ~OccursAt(urlIn, FileD, i)
    /\ urlOut # urlIn

====
